---- MODULE Spec2Model ----
(***************************************************************************)
(* Conversation message-broker core of the clarity chat backend:           *)
(* the membership store (conversations, participants, messages, typing     *)
(* rows), the ConversationService operations, the REST views that call     *)
(* them, and the ChatConsumer sessions with the channel layer's groups.    *)
(***************************************************************************)
EXTENDS Integers, Sequences, FiniteSets, TLC

(* ------------------------------------------------------------------ *)
(* Bounds of the model                                                  *)
(* ------------------------------------------------------------------ *)
MaxConvs == 2
MaxMsgs == 1
MaxTime == 2

(* ------------------------------------------------------------------ *)
(* Program constants                                                    *)
(* ------------------------------------------------------------------ *)
CodeUnauthenticated == 4001
CodeNotParticipant == 4003
Null == 0
DefaultPageSize == 50
MaxPageSize == 100

Users == {"u1", "a1", "a2"}
Sessions == {"s1", "s2"}
NotificationSessions == {"n1", "n2"}
Callers == {"k1", "k2"}
AllSessions == Sessions \cup NotificationSessions
Anonymous == "anonymous"
NoAgent == "none"
GhostId == "ghost"
NoSuchConv == 0

VARIABLES
  agent_users,     \* the users whose profile role is AGENT
  conversations,   \* Conversation rows: sequence indexed by id
  participants,    \* ConversationParticipant rows: <<conversation, user>> -> row
  messages,        \* Message rows: sequence indexed by id
  typing,          \* TypingIndicator rows: <<conversation, user>> -> is_typing
  now,             \* timezone.now()
  sessions,        \* ChatConsumer instances
  groups,          \* channel layer: conversation id -> sessions in chat_<id>
  outbox,          \* per session: the frames written to its socket by the last step
  failing,         \* the services that raise when called: database, channel layer
  agent_sessions,  \* AgentNotificationConsumer instances
  agent_groups,    \* channel layer: agent id -> sessions in agent_notifications_<id>
  calls            \* service calls in progress in concurrent threads: caller -> position

vars == <<agent_users, conversations, participants, messages, typing, now, sessions, groups,
          outbox, failing, agent_sessions, agent_groups, calls>>

\* An ORM call raises (the database cannot be reached)
StoreDown == "store" \in failing

\* A channel_layer call raises (its backend cannot be reached)
LayerDown == "channel_layer" \in failing

ConvIds == DOMAIN conversations
MsgIds == DOMAIN messages

(* ------------------------------------------------------------------ *)
(* Inputs                                                               *)
(* ------------------------------------------------------------------ *)
InputContents == {<<>>, <<" ">>, <<"h">>, <<" ", "y", " ">>}

\* str.strip(): drop leading and trailing blanks
RECURSIVE lstrip(_)
lstrip(s) == IF s # <<>> /\ Head(s) = " " THEN lstrip(Tail(s)) ELSE s

RECURSIVE rstrip(_)
rstrip(s) == IF s # <<>> /\ s[Len(s)] = " " THEN rstrip(SubSeq(s, 1, Len(s) - 1)) ELSE s

\* A variant that leaves the string as it is
strip_nothing(s) == s

strip(s) == rstrip(lstrip(s))

\* A credential: no token, or a token (signature valid or not) naming a user id
Credentials ==
  {[present |-> FALSE, valid |-> FALSE, user_id |-> GhostId],
   [present |-> TRUE, valid |-> FALSE, user_id |-> "u1"],
   [present |-> TRUE, valid |-> TRUE, user_id |-> GhostId]}
  \cup [present : {TRUE}, valid : {TRUE}, user_id : Users]

\* get_user_from_token: any exception, of the user lookup too, gives AnonymousUser
get_user_from_token(cred) ==
  IF cred.valid /\ cred.user_id \in Users /\ ~StoreDown THEN cred.user_id ELSE Anonymous

\* JWTAuthMiddleware.__call__: scope['user']
scope_user(cred) == IF cred.present THEN get_user_from_token(cred) ELSE Anonymous

is_authenticated_always(u) == TRUE

is_authenticated(u) == u # Anonymous

(* ------------------------------------------------------------------ *)
(* Membership store: rows and queries                                   *)
(* ------------------------------------------------------------------ *)
St == [conversations |-> conversations, participants |-> participants, messages |-> messages]

Rows(st) == DOMAIN st.participants

\* Conversation.objects.create(...): is_active defaults to True
NewConversation == [is_active |-> TRUE, created_at |-> now, updated_at |-> now]

\* ConversationParticipant.objects.create(..., is_active=True)
NewParticipant(role) ==
  [role |-> role, is_active |-> TRUE, is_online |-> FALSE, last_read_at |-> Null, left_at |-> Null]

\* The users holding an active participant row of c (any role)
ActiveUsers(st, c) ==
  {u \in Users : <<c, u>> \in Rows(st) /\ st.participants[<<c, u>>].is_active}

\* Message.objects.create(...); audience is a history field: the active
\* participants of the conversation when the row was inserted
NewMessage(st, c, sender, content, message_type) ==
  [conversation |-> c, sender |-> sender, content |-> content,
   message_type |-> message_type, created_at |-> now, audience |-> ActiveUsers(st, c)]

\* A variant that accepts any participant row, active or not
validate_participant_access_any_row(st, c, u) ==
  <<c, u>> \in Rows(st)

\* ConversationService.validate_participant_access: TRUE iff it does not raise
validate_participant_access(st, c, u) ==
  /\ <<c, u>> \in Rows(st)
  /\ st.participants[<<c, u>>].is_active

\* A variant of send_message without the access validation
send_message_unchecked(st, c, sender, content, message_type) ==
  [err |-> "",
   st |-> [st EXCEPT
             !.messages = Append(@, NewMessage(st, c, sender, content, message_type)),
             !.conversations = [@ EXCEPT ![c].updated_at = now]],
   id |-> Len(st.messages) + 1]

\* ConversationService.send_message
send_message(st, c, sender, content, message_type) ==
  IF ~validate_participant_access(st, c, sender)
  THEN [err |-> "PermissionDenied", st |-> st, id |-> 0]
  ELSE [err |-> "",
        st |-> [st EXCEPT
                  !.messages = Append(@, NewMessage(st, c, sender, content, message_type)),
                  !.conversations = [@ EXCEPT ![c].updated_at = now]],
        id |-> Len(st.messages) + 1]

\* A variant of mark_as_read that keeps a marker that is already set
mark_as_read_once(row) ==
  IF row.last_read_at = Null THEN [row EXCEPT !.last_read_at = now] ELSE row

\* ConversationParticipant.mark_as_read
mark_as_read(row) == [row EXCEPT !.last_read_at = now]

\* A variant of get_unread_count that filters with created_at__gte
get_unread_count_gte(st, c, u) ==
  IF st.participants[<<c, u>>].last_read_at = Null
  THEN Cardinality({i \in DOMAIN st.messages :
         st.messages[i].conversation = c /\ st.messages[i].sender # u})
  ELSE Cardinality({i \in DOMAIN st.messages :
         /\ st.messages[i].conversation = c
         /\ st.messages[i].created_at >= st.participants[<<c, u>>].last_read_at
         /\ st.messages[i].sender # u})

\* ConversationParticipant.get_unread_count of the row of user u in c
get_unread_count(st, c, u) ==
  IF st.participants[<<c, u>>].last_read_at = Null
  THEN Cardinality({i \in DOMAIN st.messages :
         st.messages[i].conversation = c /\ st.messages[i].sender # u})
  ELSE Cardinality({i \in DOMAIN st.messages :
         /\ st.messages[i].conversation = c
         /\ st.messages[i].created_at > st.participants[<<c, u>>].last_read_at
         /\ st.messages[i].sender # u})

\* ConversationService.mark_messages_as_read
mark_messages_as_read(st, c, u) ==
  IF <<c, u>> \in Rows(st)
  THEN [st EXCEPT !.participants = [@ EXCEPT ![<<c, u>>] = mark_as_read(@)]]
  ELSE st

\* A variant of close_conversation whose update lacks the conversation filter
close_conversation_all_rows(st, c, u) ==
  IF ~validate_participant_access(st, c, u)
  THEN [err |-> "PermissionDenied", st |-> st]
  ELSE [err |-> "",
        st |-> [st EXCEPT
                  !.conversations = [@ EXCEPT ![c].is_active = FALSE],
                  !.participants = [k \in DOMAIN @ |->
                      [@[k] EXCEPT !.is_active = FALSE, !.left_at = now]]]]

\* A variant of close_conversation without the update of the participant rows
close_conversation_flag_only(st, c, u) ==
  IF ~validate_participant_access(st, c, u)
  THEN [err |-> "PermissionDenied", st |-> st]
  ELSE [err |-> "",
        st |-> [st EXCEPT !.conversations = [@ EXCEPT ![c].is_active = FALSE]]]

\* A variant of the query without order_by: the rows in any order
Orderings_unordered(st, ids) ==
  {q \in [1..Cardinality(ids) -> ids] : \A i, j \in DOMAIN q : i < j => q[i] # q[j]}

\* The orders in which order_by('-created_at') can return the rows ids: rows
\* of equal created_at come in any order
Orderings(st, ids) ==
  {q \in [1..Cardinality(ids) -> ids] :
     \A i, j \in DOMAIN q :
       i < j => q[i] # q[j] /\ st.messages[q[i]].created_at >= st.messages[q[j]].created_at}

\* ConversationService.get_conversation_messages: the pages the query can
\* return, newest first; before = 0 stands for no before_message_id
get_conversation_messages(st, c, limit, before) ==
  LET all == {i \in DOMAIN st.messages : st.messages[i].conversation = c}
      ids == IF before \in DOMAIN st.messages
             THEN {i \in all : st.messages[i].created_at < st.messages[before].created_at}
             ELSE all
  IN {SubSeq(q, 1, IF limit < Len(q) THEN limit ELSE Len(q)) : q \in Orderings(st, ids)}

\* ConversationService.close_conversation
close_conversation(st, c, u) ==
  IF ~validate_participant_access(st, c, u)
  THEN [err |-> "PermissionDenied", st |-> st]
  ELSE [err |-> "",
        st |-> [st EXCEPT
                  !.conversations = [@ EXCEPT ![c].is_active = FALSE],
                  !.participants = [k \in DOMAIN @ |->
                      IF k[1] = c
                      THEN [@[k] EXCEPT !.is_active = FALSE, !.left_at = now]
                      ELSE @[k]]]]

\* ConversationService.update_participant_online_status
update_participant_online_status(st, c, u, is_online) ==
  [st EXCEPT !.participants = [k \in DOMAIN @ |->
      IF k = <<c, u>> THEN [@[k] EXCEPT !.is_online = is_online] ELSE @[k]]]

\* A variant of the annotation that counts every 'agent' participation
AgentLoad_all(st, a) ==
  Cardinality({k \in Rows(st) : k[2] = a /\ st.participants[k].role = "agent"})

\* The annotation active_conversations of _assign_agent's query
AgentLoad(st, a) ==
  Cardinality({k \in Rows(st) :
      /\ k[2] = a
      /\ st.participants[k].role = "agent"
      /\ st.participants[k].is_active
      /\ st.conversations[k[1]].is_active})

\* A variant of _assign_agent that takes the requested id without the role test
assign_agent_any_user(st, agent_id) ==
  IF agent_id # NoAgent
  THEN {agent_id}
  ELSE {a \in agent_users : \A b \in agent_users : AgentLoad(st, a) <= AgentLoad(st, b)}

\* ConversationService._assign_agent: the agents the query may return first
\* (rows of equal load come in an order the database chooses); {} is None
assign_agent(st, agent_id) ==
  IF agent_id # NoAgent /\ agent_id \in agent_users
  THEN {agent_id}
  ELSE {a \in agent_users : \A b \in agent_users : AgentLoad(st, a) <= AgentLoad(st, b)}

\* The user's active conversations in which the user holds role 'user'
ExistingConversations(st, user) ==
  {k[1] : k \in {r \in Rows(st) :
      /\ r[2] = user
      /\ st.participants[r].role = "user"
      /\ st.participants[r].is_active
      /\ st.conversations[r[1]].is_active}}

\* ...order_by('-conversation__updated_at').first(): the candidates for first
existing_participant(st, user) ==
  {c \in ExistingConversations(st, user) :
      \A d \in ExistingConversations(st, user) :
          st.conversations[d].updated_at <= st.conversations[c].updated_at}

\* The content of the system message appended on agent assignment
JoinedContent(agent) == <<"Agent ", agent, " has joined the conversation.">>

\* What channel_layer.group_send to agent_notifications_<id> can do: reach
\* the agent's notification consumer, find no channel in the group, or raise
NotifyOutcomes == {"delivered", "no_channel", "transport_error"}

\* A variant of the notification without the try/except around group_send
notify_agent_unguarded(agent, outcome) ==
  [err |-> IF outcome = "transport_error" THEN "Exception" ELSE "",
   delivered |-> IF outcome = "delivered" THEN agent ELSE NoAgent]

\* ConversationService._notify_agent_of_new_conversation: the exception of
\* group_send is caught and printed; delivered names the agent it reached
notify_agent_of_new_conversation(agent, outcome) ==
  LET raised == IF outcome = "transport_error" THEN "Exception" ELSE ""
  IN [err |-> "",
      delivered |-> IF raised = "" /\ outcome = "delivered" THEN agent ELSE NoAgent]

\* A variant of the block for a store without unique_together: the second
\* insert for the same (conversation, user) replaces the first row
create_conversation_upsert(st, user, agent, outcome) ==
  LET c == Len(st.conversations) + 1
      st1 == [st EXCEPT !.conversations = Append(@, NewConversation),
                        !.participants = (<<c, user>> :> NewParticipant("user")) @@ @]
      st2 == [st1 EXCEPT !.participants = (<<c, agent>> :> NewParticipant("agent")) @@ @]
      st3 == [st2 EXCEPT !.messages =
                 Append(@, NewMessage(st2, c, agent, JoinedContent(agent), "system"))]
  IN IF agent = NoAgent
     THEN [err |-> "", created |-> TRUE, id |-> c, st |-> st1, agent |-> NoAgent,
           notify |-> NoAgent]
     ELSE [err |-> "", created |-> TRUE, id |-> c, st |-> st3, agent |-> agent,
           notify |-> notify_agent_of_new_conversation(agent, outcome).delivered]

\* A variant of the block without the transaction: what was inserted before
\* the exception stays
create_conversation_partial(st, user, agent, outcome) ==
  LET c == Len(st.conversations) + 1
      st1 == [st EXCEPT !.conversations = Append(@, NewConversation),
                        !.participants = (<<c, user>> :> NewParticipant("user")) @@ @]
      st2 == [st1 EXCEPT !.participants = (<<c, agent>> :> NewParticipant("agent")) @@ @]
      st3 == [st2 EXCEPT !.messages =
                 Append(@, NewMessage(st2, c, agent, JoinedContent(agent), "system"))]
  IN IF agent = NoAgent
     THEN [err |-> "", created |-> TRUE, id |-> c, st |-> st1, agent |-> NoAgent,
           notify |-> NoAgent]
     ELSE IF <<c, agent>> \in Rows(st1)
     THEN [err |-> "IntegrityError", created |-> FALSE, id |-> NoSuchConv, st |-> st1,
           agent |-> NoAgent, notify |-> NoAgent]
     ELSE [err |-> "", created |-> TRUE, id |-> c, st |-> st3, agent |-> agent,
           notify |-> notify_agent_of_new_conversation(agent, outcome).delivered]

\* The transaction.atomic() block of get_or_create_conversation with the
\* agent the assignment returned (NoAgent for None) and the outcome of the
\* notification's group_send. The second participant insert violates
\* unique_together when the agent is the calling user; an exception that
\* leaves the block rolls it back.
create_conversation(st, user, agent, outcome) ==
  LET c == Len(st.conversations) + 1
      st1 == [st EXCEPT !.conversations = Append(@, NewConversation),
                        !.participants = (<<c, user>> :> NewParticipant("user")) @@ @]
  IN IF agent = NoAgent
     THEN [err |-> "", created |-> TRUE, id |-> c, st |-> st1, agent |-> NoAgent,
           notify |-> NoAgent]
     ELSE IF <<c, agent>> \in Rows(st1)
     THEN [err |-> "IntegrityError", created |-> FALSE, id |-> NoSuchConv, st |-> st,
           agent |-> NoAgent, notify |-> NoAgent]
     ELSE LET st2 == [st1 EXCEPT !.participants = (<<c, agent>> :> NewParticipant("agent")) @@ @]
              st3 == [st2 EXCEPT !.messages =
                         Append(@, NewMessage(st2, c, agent, JoinedContent(agent), "system"))]
              sent == notify_agent_of_new_conversation(agent, outcome)
          IN IF sent.err # ""
             THEN [err |-> sent.err, created |-> FALSE, id |-> NoSuchConv, st |-> st,
                   agent |-> NoAgent, notify |-> NoAgent]
             ELSE [err |-> "", created |-> TRUE, id |-> c, st |-> st3,
                   agent |-> agent, notify |-> sent.delivered]

\* A variant of the reuse test without the branch for no requested agent
reuse_existing_agent_only(st, c, agent_id) ==
  /\ <<c, agent_id>> \in Rows(st)
  /\ st.participants[<<c, agent_id>>].role = "agent"
  /\ st.participants[<<c, agent_id>>].is_active

\* Whether the existing conversation c is returned for the requested agent
reuse_existing(st, c, agent_id) ==
  \/ agent_id = NoAgent
  \/ /\ <<c, agent_id>> \in Rows(st)
     /\ st.participants[<<c, agent_id>>].role = "agent"
     /\ st.participants[<<c, agent_id>>].is_active

\* A variant that skips the lookup of an existing conversation
get_or_create_conversation_anew(st, user, agent_id) ==
  LET agents == assign_agent(st, agent_id)
  IN IF agents = {}
     THEN {create_conversation(st, user, NoAgent, "no_channel")}
     ELSE {create_conversation(st, user, b, o) : b \in agents, o \in NotifyOutcomes}

\* ConversationService.get_or_create_conversation: the set of its outcomes
get_or_create_conversation(st, user, agent_id) ==
  LET found == existing_participant(st, user)
      reused == {c \in found : reuse_existing(st, c, agent_id)}
      agents == assign_agent(st, agent_id)
      creates == IF agents = {}
                 THEN {create_conversation(st, user, NoAgent, "no_channel")}
                 ELSE {create_conversation(st, user, a, o) : a \in agents, o \in NotifyOutcomes}
  IN {[err |-> "", created |-> FALSE, id |-> c, st |-> st, agent |-> NoAgent,
       notify |-> NoAgent] : c \in reused}
     \cup (IF found = {} \/ found # reused THEN creates ELSE {})

(* ------------------------------------------------------------------ *)
(* Sessions (ChatConsumer) and the channel layer                        *)
(* ------------------------------------------------------------------ *)
\* A consumer before connect(): no attribute is set yet
IdleSession ==
  [pc |-> "idle", user |-> Anonymous, conversation_id |-> NoSuchConv,
   has_group_name |-> FALSE, has_user_id |-> FALSE, code |-> 0, pending |-> 0]

\* A thread that runs no service call
IdleCall ==
  [pc |-> "idle", op |-> "", user |-> Anonymous, conv |-> NoSuchConv, agent_id |-> NoAgent,
   content |-> <<>>, created |-> FALSE, id |-> 0, err |-> "", stamp |-> 0]

\* A notification consumer before connect()
IdleAgentSession ==
  [pc |-> "idle", user |-> Anonymous, has_group_name |-> FALSE, code |-> 0]

NoOutput == [s \in AllSessions |-> <<>>]

\* What a consumer writes to its socket; conv is a history field naming the
\* group the event was sent to
Frame(type, conv, user_id, id, content, flag, text) ==
  [type |-> type, conv |-> conv, user_id |-> user_id, id |-> id,
   content |-> content, flag |-> flag, text |-> text]

\* A variant of the serializer that reports the sender's raw input rather
\* than the stored content
serialize_message_raw(st, id) ==
  [id |-> id, conversation_id |-> st.messages[id].conversation,
   sender |-> st.messages[id].sender, content |-> <<" ">> \o st.messages[id].content,
   message_type |-> st.messages[id].message_type]

\* MessageSerializer(message).data
serialize_message(st, id) ==
  [id |-> id, conversation_id |-> st.messages[id].conversation,
   sender |-> st.messages[id].sender, content |-> st.messages[id].content,
   message_type |-> st.messages[id].message_type]

\* The events handed to channel_layer.group_send
ChatMessageEvent(c, data) ==
  [type |-> "chat_message", conv |-> c, user_id |-> data.sender, id |-> data.id,
   content |-> data.content, flag |-> FALSE, text |-> data.message_type]

TypingEvent(c, u, is_typing) ==
  [type |-> "typing_indicator", conv |-> c, user_id |-> u, id |-> 0,
   content |-> <<>>, flag |-> is_typing, text |-> ""]

PresenceEvent(c, u, is_online) ==
  [type |-> "presence_update", conv |-> c, user_id |-> u, id |-> 0,
   content |-> <<>>, flag |-> is_online, text |-> ""]

ReadEvent(c, u) ==
  [type |-> "read_receipt", conv |-> c, user_id |-> u, id |-> 0,
   content |-> <<>>, flag |-> FALSE, text |-> ""]

ClosedEvent(c, u) ==
  [type |-> "conversation_closed", conv |-> c, user_id |-> u, id |-> 0,
   content |-> <<>>, flag |-> FALSE, text |-> ""]

\* A variant of chat_message that skips the sender's own sessions, as the
\* typing and presence handlers do
chat_message_others(sess, ev) ==
  IF ev.user_id # sess.user
  THEN <<Frame("message", ev.conv, ev.user_id, ev.id, ev.content, FALSE, ev.text)>>
  ELSE <<>>

\* ChatConsumer.chat_message
chat_message(sess, ev) ==
  <<Frame("message", ev.conv, ev.user_id, ev.id, ev.content, FALSE, ev.text)>>

\* A variant of typing_indicator without the comparison of user ids
typing_indicator_all(sess, ev) ==
  <<Frame("typing", ev.conv, ev.user_id, 0, <<>>, ev.flag, "")>>

\* ChatConsumer.typing_indicator
typing_indicator(sess, ev) ==
  IF ev.user_id # sess.user
  THEN <<Frame("typing", ev.conv, ev.user_id, 0, <<>>, ev.flag, "")>>
  ELSE <<>>

\* ChatConsumer.presence_update
presence_update(sess, ev) ==
  IF ev.user_id # sess.user
  THEN <<Frame("presence", ev.conv, ev.user_id, 0, <<>>, ev.flag, "")>>
  ELSE <<>>

\* A variant of read_receipt without the comparison of user ids
read_receipt_all(sess, ev) ==
  <<Frame("read", ev.conv, ev.user_id, 0, <<>>, FALSE, "")>>

\* ChatConsumer.read_receipt
read_receipt(sess, ev) ==
  IF ev.user_id # sess.user
  THEN <<Frame("read", ev.conv, ev.user_id, 0, <<>>, FALSE, "")>>
  ELSE <<>>

\* A variant of conversation_closed that skips the sessions of the closing user
conversation_closed_others(sess, ev) ==
  IF ev.user_id # sess.user
  THEN <<Frame("conversation_closed", ev.conv, ev.user_id, 0, <<>>, FALSE, "")>>
  ELSE <<>>

\* ChatConsumer.conversation_closed
conversation_closed(sess, ev) ==
  <<Frame("conversation_closed", ev.conv, ev.user_id, 0, <<>>, FALSE, "")>>

\* The consumer's dispatch of a channel-layer event on its type
dispatch(sess, ev) ==
  CASE ev.type = "chat_message" -> chat_message(sess, ev)
    [] ev.type = "typing_indicator" -> typing_indicator(sess, ev)
    [] ev.type = "presence_update" -> presence_update(sess, ev)
    [] ev.type = "read_receipt" -> read_receipt(sess, ev)
    [] ev.type = "conversation_closed" -> conversation_closed(sess, ev)

\* A variant of group_send that skips the channels whose consumer is inside
\* a handler
group_send_to_idle(ob, ss, g, c, ev) ==
  [s \in AllSessions |->
     IF s \in g[c] /\ ss[s].pc = "open" THEN ob[s] \o dispatch(ss[s], ev) ELSE ob[s]]

\* channel_layer.group_send(chat_<c>, ev): every channel in the group hands
\* ev to its consumer, if that still runs; ob collects what each consumer writes
group_send(ob, ss, g, c, ev) ==
  [s \in AllSessions |->
     IF s \in g[c] /\ ss[s].pc # "dead" THEN ob[s] \o dispatch(ss[s], ev) ELSE ob[s]]

\* The event handed to group_send for agent_notifications_<agent id>
NewConversationEvent(c, u) ==
  [type |-> "new_conversation_request", conv |-> c, user_id |-> u, id |-> 0,
   content |-> <<>>, flag |-> FALSE, text |-> ""]

\* AgentNotificationConsumer.new_conversation_request
new_conversation_request(ev) ==
  <<Frame("new_conversation_request", ev.conv, ev.user_id, 0, <<>>, FALSE, "")>>

\* A variant that sends the event to the notification groups of all agents
notify_group_send_all(ob, ns, ag, agent, ev) ==
  [s \in AllSessions |->
     IF (\E b \in Users : s \in ag[b]) /\ ns[s].pc # "dead"
     THEN ob[s] \o new_conversation_request(ev) ELSE ob[s]]

\* channel_layer.group_send(agent_notifications_<agent>, ev)
notify_group_send(ob, ns, ag, agent, ev) ==
  [s \in AllSessions |->
     IF s \in ag[agent] /\ ns[s].pc # "dead"
     THEN ob[s] \o new_conversation_request(ev) ELSE ob[s]]

\* What the group_send of the notification does in the current state
notify_outcome(agent) ==
  IF LayerDown THEN "transport_error"
  ELSE IF \E n \in agent_groups[agent] : agent_sessions[n].pc # "dead" THEN "delivered"
  ELSE "no_channel"

\* A variant of group_discard that leaves the channel in the group
group_discard_keep(g, c, s) == g

\* channel_layer.group_add / group_discard
group_add(g, c, s) == [g EXCEPT ![c] = @ \cup {s}]

group_discard(g, c, s) == [g EXCEPT ![c] = @ \ {s}]

\* ChatConsumer.send_error
send_error(ob, ss, s, text) ==
  [ob EXCEPT ![s] = Append(@, Frame("error", ss[s].conversation_id, ss[s].user, 0, <<>>, FALSE, text))]

\* A variant that only looks the conversation up
validate_conversation_access_existing(st, c, u) ==
  c \in DOMAIN st.conversations

\* ChatConsumer.validate_conversation_access
validate_conversation_access(st, c, u) ==
  /\ ~StoreDown
  /\ c \in DOMAIN st.conversations
  /\ validate_participant_access(st, c, u)

\* ChatConsumer.update_online_status: any exception is printed and swallowed
update_online_status(st, c, u, is_online) ==
  IF ~StoreDown /\ c \in DOMAIN st.conversations
  THEN update_participant_online_status(st, c, u, is_online)
  ELSE st

\* ChatConsumer.update_typing_status: TypingIndicator.objects.update_or_create;
\* any exception is printed and swallowed
update_typing_status(ty, st, c, u, is_typing) ==
  IF ~StoreDown /\ c \in DOMAIN st.conversations
  THEN [k \in DOMAIN ty \cup {<<c, u>>} |-> IF k = <<c, u>> THEN is_typing ELSE ty[k]]
  ELSE ty

\* ChatConsumer.mark_messages_read: any exception is printed and swallowed
mark_messages_read(st, c, u) ==
  IF ~StoreDown /\ c \in DOMAIN st.conversations THEN mark_messages_as_read(st, c, u) ELSE st

\* A variant of save_message that stores the message whatever the checks say
save_message_unguarded(st, c, u, content) ==
  send_message_unchecked(st, c, u, content, "text")

\* ChatConsumer.save_message: None for any exception
save_message(st, c, u, content) ==
  IF StoreDown
  THEN [err |-> "DatabaseError", st |-> st, id |-> 0]
  ELSE IF c \notin DOMAIN st.conversations
  THEN [err |-> "DoesNotExist", st |-> st, id |-> 0]
  ELSE send_message(st, c, u, content, "text")

StoreIs(st) ==
  /\ conversations' = st.conversations
  /\ participants' = st.participants
  /\ messages' = st.messages

\* The model's bounds: conversations created, and messages that users sent
\* (each conversation may hold its system message besides)
WithinBounds(st) ==
  /\ Len(st.conversations) <= MaxConvs
  /\ Cardinality({i \in DOMAIN st.messages : st.messages[i].message_type # "system"}) <= MaxMsgs

(* ------------------------------------------------------------------ *)
(* Initial state                                                        *)
(* ------------------------------------------------------------------ *)
Init ==
  /\ agent_users \in {{}, {"a1"}, {"a1", "a2"}}
  /\ conversations = <<>>
  /\ participants = <<>>
  /\ messages = <<>>
  /\ typing = <<>>
  /\ now = 1
  /\ sessions = [s \in Sessions |-> IdleSession]
  /\ groups = [c \in 0..MaxConvs |-> {}]
  /\ outbox = NoOutput
  /\ failing = {}
  /\ agent_sessions = [n \in NotificationSessions |-> IdleAgentSession]
  /\ agent_groups = [a \in Users |-> {}]
  /\ calls = [k \in Callers |-> IdleCall]

(* ------------------------------------------------------------------ *)
(* ChatConsumer: connect, disconnect, receive                            *)
(* ------------------------------------------------------------------ *)
\* ChatConsumer.connect for the credential of the handshake and the
\* conversation id of the URL
Connect(s, cred, c) ==
  /\ sessions[s].pc = "idle"
  /\ LET user == scope_user(cred)
         base == [IdleSession EXCEPT !.conversation_id = c, !.has_group_name = TRUE,
                                     !.user = user]
     IN IF ~is_authenticated(user)
        THEN /\ sessions' = [sessions EXCEPT ![s] =
                   [base EXCEPT !.pc = "closing", !.code = CodeUnauthenticated]]
             /\ outbox' = NoOutput
             /\ UNCHANGED <<conversations, participants, messages, groups>>
        ELSE IF ~validate_conversation_access(St, c, user)
        THEN /\ sessions' = [sessions EXCEPT ![s] =
                   [base EXCEPT !.pc = "closing", !.has_user_id = TRUE,
                                !.code = CodeNotParticipant]]
             /\ outbox' = NoOutput
             /\ UNCHANGED <<conversations, participants, messages, groups>>
        ELSE IF LayerDown
        THEN \* group_add raises: the consumer ends before accept()
             /\ sessions' = [sessions EXCEPT ![s] =
                   [base EXCEPT !.pc = "dead", !.has_user_id = TRUE]]
             /\ outbox' = NoOutput
             /\ UNCHANGED <<conversations, participants, messages, groups>>
        ELSE LET g == group_add(groups, c, s)
                 ss == [sessions EXCEPT ![s] =
                          [base EXCEPT !.pc = "open", !.has_user_id = TRUE]]
             IN /\ groups' = g
                /\ sessions' = ss
                /\ StoreIs(update_online_status(St, c, user, TRUE))
                /\ outbox' = group_send(NoOutput, ss, g, c, PresenceEvent(c, user, TRUE))
  /\ UNCHANGED <<failing, agent_sessions, agent_groups, calls, agent_users, typing, now>>

\* ChatConsumer.disconnect, run when the socket of an accepted or of a
\* rejected connection goes away; the consumer instance ends with it
Disconnect(s) ==
  /\ sessions[s].pc \in {"open", "closing"}
  /\ LET me == sessions[s]
         c == me.conversation_id
     IN IF me.has_group_name /\ me.has_user_id /\ LayerDown
        THEN \* group_send raises: disconnect ends there, before group_discard
             /\ StoreIs(update_online_status(St, c, me.user, FALSE))
             /\ outbox' = NoOutput
             /\ groups' = groups
             /\ sessions' = [sessions EXCEPT ![s] =
                              IF s \in groups[c] THEN [me EXCEPT !.pc = "dead"]
                              ELSE IdleSession]
        ELSE IF me.has_group_name /\ me.has_user_id
        THEN /\ StoreIs(update_online_status(St, c, me.user, FALSE))
             /\ outbox' = group_send(NoOutput, sessions, groups, c,
                                     PresenceEvent(c, me.user, FALSE))
             /\ groups' = group_discard(groups, c, s)
             /\ sessions' = [sessions EXCEPT ![s] = IdleSession]
        ELSE /\ outbox' = NoOutput
             /\ UNCHANGED <<conversations, participants, messages, groups>>
             /\ sessions' = [sessions EXCEPT ![s] = IdleSession]
  /\ UNCHANGED <<failing, agent_sessions, agent_groups, calls, agent_users, typing, now>>

\* Inbound frames: a binary frame, undecodable text, JSON that is no object,
\* or an object with (or without) a type tag
InFrames ==
  {[json |-> j, type |-> "", content |-> <<>>, is_typing |-> FALSE] : j \in {"invalid", "list"}}
  \cup {[json |-> "binary", type |-> "bytes", content |-> <<>>, is_typing |-> FALSE]}
  \cup [json : {"object"}, type : {"message", "absent"}, content : InputContents, is_typing : {FALSE}]
  \cup [json : {"object"}, type : {"typing"}, content : {<<>>}, is_typing : BOOLEAN]
  \cup [json : {"object"}, type : {"read", "other"}, content : {<<>>}, is_typing : {FALSE}]

\* data.get('type', 'message')
message_type_of(frame) == IF frame.type = "absent" THEN "message" ELSE frame.type

\* ChatConsumer.handle_message up to and including save_message
HandleMessage(s, frame) ==
  LET me == sessions[s]
      content == strip(frame.content)
      saved == save_message(St, me.conversation_id, me.user, content)
  IN /\ UNCHANGED <<typing, groups>>
     /\ IF content = <<>>
        THEN /\ outbox' = send_error(NoOutput, sessions, s, "Message content cannot be empty")
             /\ UNCHANGED <<conversations, participants, messages, sessions>>
        ELSE IF saved.err # ""
        THEN /\ outbox' = send_error(NoOutput, sessions, s, "Failed to save message")
             /\ UNCHANGED <<conversations, participants, messages, sessions>>
        ELSE /\ WithinBounds(saved.st)
             /\ StoreIs(saved.st)
             /\ outbox' = NoOutput
             /\ sessions' = [sessions EXCEPT ![s].pc = "saving", ![s].pending = saved.id]

\* ChatConsumer.handle_typing
HandleTyping(s, frame) ==
  LET me == sessions[s]
      c == me.conversation_id
  IN /\ typing' = update_typing_status(typing, St, c, me.user, frame.is_typing)
     /\ outbox' = IF LayerDown
                  THEN send_error(NoOutput, sessions, s, "Error processing message")
                  ELSE group_send(NoOutput, sessions, groups, c,
                                  TypingEvent(c, me.user, frame.is_typing))
     /\ UNCHANGED <<conversations, participants, messages, sessions, groups>>

\* ChatConsumer.handle_read_receipt
HandleReadReceipt(s) ==
  LET me == sessions[s]
      c == me.conversation_id
  IN /\ StoreIs(mark_messages_read(St, c, me.user))
     /\ outbox' = IF LayerDown
                  THEN send_error(NoOutput, sessions, s, "Error processing message")
                  ELSE group_send(NoOutput, sessions, groups, c, ReadEvent(c, me.user))
     /\ UNCHANGED <<typing, sessions, groups>>

\* ChatConsumer.receive. The method takes text_data only: for a binary frame
\* the framework's call receive(bytes_data=...) raises TypeError before the
\* body runs; the consumer ends with that exception, and no disconnect()
\* follows for it
Receive(s, frame) ==
  /\ sessions[s].pc = "open"
  /\ IF frame.json = "binary"
     THEN /\ sessions' = [sessions EXCEPT ![s].pc = "dead"]
          /\ outbox' = NoOutput
          /\ UNCHANGED <<conversations, participants, messages, typing, groups>>
     ELSE IF frame.json = "invalid"
     THEN /\ outbox' = send_error(NoOutput, sessions, s, "Invalid JSON")
          /\ UNCHANGED <<conversations, participants, messages, typing, sessions, groups>>
     ELSE IF frame.json = "list"
     THEN /\ outbox' = send_error(NoOutput, sessions, s, "Error processing message")
          /\ UNCHANGED <<conversations, participants, messages, typing, sessions, groups>>
     ELSE IF message_type_of(frame) = "message" THEN HandleMessage(s, frame)
     ELSE IF message_type_of(frame) = "typing" THEN HandleTyping(s, frame)
     ELSE IF message_type_of(frame) = "read" THEN HandleReadReceipt(s)
     ELSE /\ outbox' = send_error(NoOutput, sessions, s, "Unknown message type")
          /\ UNCHANGED <<conversations, participants, messages, typing, sessions, groups>>
  /\ UNCHANGED <<failing, agent_sessions, agent_groups, calls, agent_users, now>>

\* ChatConsumer.handle_message from serialize_message on: the group_send.
\* The serializer reads message.conversation from the database; an exception
\* of it or of group_send is answered by the except clause of receive
Broadcast(s) ==
  /\ sessions[s].pc = "saving"
  /\ LET me == sessions[s]
         c == me.conversation_id
         data == serialize_message(St, me.pending)
     IN outbox' = IF StoreDown \/ LayerDown
                  THEN send_error(NoOutput, sessions, s, "Error processing message")
                  ELSE group_send(NoOutput, sessions, groups, c, ChatMessageEvent(c, data))
  /\ sessions' = [sessions EXCEPT ![s].pc = "open", ![s].pending = 0]
  /\ UNCHANGED <<failing, agent_sessions, agent_groups, calls, agent_users, conversations, participants, messages, typing, now, groups>>

(* ------------------------------------------------------------------ *)
(* REST views (ConversationViewSet)                                     *)
(* ------------------------------------------------------------------ *)
\* ConversationService.get_user_conversations, as used by get_object()
get_user_conversations(st, u) ==
  {c \in DOMAIN st.conversations : validate_participant_access(st, c, u)}

\* ConversationCreateSerializer.validate_agent_id: TRUE iff it does not raise
validate_agent_id(agent_id) == agent_id = NoAgent \/ agent_id \in agent_users

\* ConversationViewSet.create: the store it leaves for outcome r of
\* get_or_create_conversation (an IntegrityError leaves the request failed)
create_view(r, u, initial) ==
  IF r.err # "" \/ strip(initial) = <<>>
  THEN r.st
  ELSE send_message(r.st, r.id, u, strip(initial), "text").st

\* ConversationViewSet.create; the notification's group_send does what the
\* channel layer does in the current state
CreateView(u, agent_id, initial) ==
  /\ IF StoreDown \/ ~validate_agent_id(agent_id)
     THEN /\ UNCHANGED <<conversations, participants, messages>>
          /\ outbox' = NoOutput
     ELSE \E r \in get_or_create_conversation(St, u, agent_id) :
            /\ r.agent # NoAgent =>
                 ((r.notify = r.agent) <=> (notify_outcome(r.agent) = "delivered"))
            /\ WithinBounds(create_view(r, u, initial))
            /\ StoreIs(create_view(r, u, initial))
            /\ outbox' = IF r.notify = NoAgent THEN NoOutput
                         ELSE notify_group_send(NoOutput, agent_sessions, agent_groups,
                                                r.notify, NewConversationEvent(r.id, u))
  /\ UNCHANGED <<failing, agent_sessions, agent_groups, calls, agent_users, typing, now, sessions, groups>>

\* ConversationViewSet.close
CloseView(u, c) ==
  /\ IF \/ StoreDown
        \/ c \notin get_user_conversations(St, u)
        \/ close_conversation(St, c, u).err # ""
     THEN /\ outbox' = NoOutput
          /\ UNCHANGED <<conversations, participants, messages>>
     ELSE /\ StoreIs(close_conversation(St, c, u).st)
          /\ outbox' = IF LayerDown \* the failure is printed, the request succeeds
                       THEN NoOutput
                       ELSE group_send(NoOutput, sessions, groups, c, ClosedEvent(c, u))
  /\ UNCHANGED <<failing, agent_sessions, agent_groups, calls, agent_users, typing, now, sessions, groups>>

\* MessageCreateSerializer.validate_content: <<>> stands for the ValidationError
validate_content(value) == strip(value)

\* A variant of the send view that also hands the message to the group
SendMessageView_broadcasting(u, c, content, message_type) ==
  /\ IF \/ StoreDown
        \/ c \notin get_user_conversations(St, u)
        \/ ~validate_participant_access(St, c, u)
        \/ validate_content(content) = <<>>
        \/ send_message(St, c, u, validate_content(content), message_type).err # ""
     THEN /\ UNCHANGED <<conversations, participants, messages>>
          /\ outbox' = NoOutput
     ELSE LET sent == send_message(St, c, u, validate_content(content), message_type)
          IN /\ WithinBounds(sent.st)
             /\ StoreIs(sent.st)
             /\ outbox' = group_send(NoOutput, sessions, groups, c,
                                     ChatMessageEvent(c, serialize_message(sent.st, sent.id)))
  /\ UNCHANGED <<failing, agent_sessions, agent_groups, calls, agent_users, typing, now, sessions, groups>>

\* ConversationViewSet.send_message
SendMessageView(u, c, content, message_type) ==
  /\ IF \/ StoreDown
        \/ c \notin get_user_conversations(St, u)
        \/ ~validate_participant_access(St, c, u)
        \/ validate_content(content) = <<>>
        \/ send_message(St, c, u, validate_content(content), message_type).err # ""
     THEN UNCHANGED <<conversations, participants, messages>>
     ELSE /\ WithinBounds(send_message(St, c, u, validate_content(content), message_type).st)
          /\ StoreIs(send_message(St, c, u, validate_content(content), message_type).st)
  /\ outbox' = NoOutput
  /\ UNCHANGED <<failing, agent_sessions, agent_groups, calls, agent_users, typing, now, sessions, groups>>

\* ConversationViewSet.read
ReadView(u, c) ==
  /\ IF StoreDown \/ c \notin get_user_conversations(St, u)
     THEN UNCHANGED <<conversations, participants, messages>>
     ELSE StoreIs(mark_messages_as_read(St, c, u))
  /\ outbox' = NoOutput
  /\ UNCHANGED <<failing, agent_sessions, agent_groups, calls, agent_users, typing, now, sessions, groups>>

\* list(reversed(serializer.data))
Reverse(q) == [i \in 1..Len(q) |-> q[Len(q) + 1 - i]]

\* ConversationViewSet.messages: the responses it can give, results being the
\* ids of the messages, oldest first
messages_view(st, u, c, page_size, before) ==
  IF c \notin get_user_conversations(st, u)
  THEN {[status |-> 404, results |-> <<>>]}
  ELSE IF ~validate_participant_access(st, c, u)
  THEN {[status |-> 403, results |-> <<>>]}
  ELSE LET limit == IF page_size < MaxPageSize THEN page_size ELSE MaxPageSize
       IN {[status |-> 200, results |-> Reverse(page)] :
             page \in get_conversation_messages(st, c, limit, before)}

(* ------------------------------------------------------------------ *)
(* ConversationService calls of concurrent threads, query by query      *)
(* ------------------------------------------------------------------ *)
\* get_or_create_conversation, lines 43-63: the conversation it decides to
\* return, or NoSuchConv when it decides to create
lookup_existing(st, user, agent_id) ==
  LET found == existing_participant(st, user)
      reused == {c \in found : reuse_existing(st, c, agent_id)}
  IN reused \cup (IF found = {} \/ found # reused THEN {NoSuchConv} ELSE {})

\* A variant of the creation block that repeats the lookup inside it
create_block_rechecking(st, user, agent_id) ==
  get_or_create_conversation(st, user, agent_id)

\* get_or_create_conversation, lines 66-100: the outcomes of the atomic block
create_block(st, user, agent_id) ==
  LET agents == assign_agent(st, agent_id)
  IN IF agents = {}
     THEN {create_conversation(st, user, NoAgent, "no_channel")}
     ELSE {create_conversation(st, user, b, o) : b \in agents, o \in NotifyOutcomes}

\* A thread enters get_or_create_conversation and runs the lookup
LookupExisting(k, u, agent_id) ==
  /\ calls[k].pc = "idle"
  /\ \E c \in lookup_existing(St, u, agent_id) :
       calls' = [calls EXCEPT ![k] =
                   [IdleCall EXCEPT !.op = "create", !.user = u, !.agent_id = agent_id,
                                    !.pc = IF c = NoSuchConv THEN "creating" ELSE "done",
                                    !.id = c]]
  /\ outbox' = NoOutput
  /\ UNCHANGED <<failing, agent_sessions, agent_groups, agent_users, conversations,
                 participants, messages, typing, now, sessions, groups>>

\* The thread runs the creation block and commits, or the block raises
CreateBlock(k) ==
  /\ calls[k].pc = "creating"
  /\ \E r \in create_block(St, calls[k].user, calls[k].agent_id) :
       /\ r.agent # NoAgent =>
            ((r.notify = r.agent) <=> (notify_outcome(r.agent) = "delivered"))
       /\ WithinBounds(r.st)
       /\ StoreIs(r.st)
       /\ calls' = [calls EXCEPT ![k].pc = "done", ![k].created = r.created,
                                 ![k].id = r.id, ![k].err = r.err]
       /\ outbox' = IF r.notify = NoAgent THEN NoOutput
                    ELSE notify_group_send(NoOutput, agent_sessions, agent_groups,
                                           r.notify, NewConversationEvent(r.id, calls[k].user))
  /\ UNCHANGED <<failing, agent_sessions, agent_groups, agent_users, typing, now, sessions,
                 groups>>

\* The call has returned; the thread is free for the next one
Return(k) ==
  /\ calls[k].pc = "done"
  /\ calls' = [calls EXCEPT ![k] = IdleCall]
  /\ outbox' = NoOutput
  /\ UNCHANGED <<failing, agent_sessions, agent_groups, agent_users, conversations,
                 participants, messages, typing, now, sessions, groups>>

\* send_message, line 228: the access validation
SendValidate(k, u, c, content) ==
  /\ calls[k].pc = "idle"
  /\ c \in DOMAIN conversations
  /\ calls' = [calls EXCEPT ![k] =
                [IdleCall EXCEPT !.op = "send", !.user = u, !.conv = c, !.content = content,
                                 !.pc = IF validate_participant_access(St, c, u)
                                        THEN "validated" ELSE "done",
                                 !.err = IF validate_participant_access(St, c, u)
                                         THEN "" ELSE "PermissionDenied"]]
  /\ outbox' = NoOutput
  /\ UNCHANGED <<failing, agent_sessions, agent_groups, agent_users, conversations,
                 participants, messages, typing, now, sessions, groups>>

\* send_message, lines 231-236: Message.objects.create
SendInsert(k) ==
  /\ calls[k].pc = "validated"
  /\ messages' = Append(messages,
                        NewMessage(St, calls[k].conv, calls[k].user, calls[k].content, "text"))
  /\ calls' = [calls EXCEPT ![k].pc = "inserted", ![k].id = Len(messages) + 1]
  /\ outbox' = NoOutput
  /\ UNCHANGED <<failing, agent_sessions, agent_groups, agent_users, conversations,
                 participants, typing, now, sessions, groups>>

\* send_message, line 239: conversation.updated_at = timezone.now() on the
\* instance the thread holds in memory
SendStamp(k) ==
  /\ calls[k].pc = "inserted"
  /\ calls' = [calls EXCEPT ![k].pc = "stamped", ![k].stamp = now]
  /\ outbox' = NoOutput
  /\ UNCHANGED <<failing, agent_sessions, agent_groups, agent_users, conversations,
                 participants, messages, typing, now, sessions, groups>>

\* A variant of the column without auto_now: save() writes the value the
\* instance was given at line 239
saved_updated_at_assigned(stamp, clock) == stamp

\* The value save(update_fields=['updated_at']) writes: updated_at is declared
\* auto_now, so pre_save replaces the assigned value by the time of the save
saved_updated_at(stamp, clock) == clock

\* send_message, lines 240-242: conversation.save(update_fields=['updated_at'])
\* and return
SendSave(k) ==
  /\ calls[k].pc = "stamped"
  /\ conversations' = [conversations EXCEPT
                         ![calls[k].conv].updated_at = saved_updated_at(calls[k].stamp, now)]
  /\ calls' = [calls EXCEPT ![k].pc = "done"]
  /\ outbox' = NoOutput
  /\ UNCHANGED <<failing, agent_sessions, agent_groups, agent_users, participants, messages,
                 typing, now, sessions, groups>>

\* close_conversation, line 296: the access validation
CloseValidate(k, u, c) ==
  /\ calls[k].pc = "idle"
  /\ c \in DOMAIN conversations
  /\ calls' = [calls EXCEPT ![k] =
                [IdleCall EXCEPT !.op = "close", !.user = u, !.conv = c,
                                 !.pc = IF validate_participant_access(St, c, u)
                                        THEN "closing" ELSE "done",
                                 !.err = IF validate_participant_access(St, c, u)
                                         THEN "" ELSE "PermissionDenied"]]
  /\ outbox' = NoOutput
  /\ UNCHANGED <<failing, agent_sessions, agent_groups, agent_users, conversations,
                 participants, messages, typing, now, sessions, groups>>

\* close_conversation, lines 299-300: is_active = False and
\* save(update_fields=['is_active'])
CloseFlag(k) ==
  /\ calls[k].pc = "closing"
  /\ conversations' = [conversations EXCEPT ![calls[k].conv].is_active = FALSE]
  /\ calls' = [calls EXCEPT ![k].pc = "flagged"]
  /\ outbox' = NoOutput
  /\ UNCHANGED <<failing, agent_sessions, agent_groups, agent_users, participants, messages,
                 typing, now, sessions, groups>>

\* close_conversation, lines 303-305: the update of the participant rows
CloseRows(k) ==
  /\ calls[k].pc = "flagged"
  /\ participants' = [r \in DOMAIN participants |->
                        IF r[1] = calls[k].conv
                        THEN [participants[r] EXCEPT !.is_active = FALSE, !.left_at = now]
                        ELSE participants[r]]
  /\ calls' = [calls EXCEPT ![k].pc = "done"]
  /\ outbox' = NoOutput
  /\ UNCHANGED <<failing, agent_sessions, agent_groups, agent_users, conversations, messages,
                 typing, now, sessions, groups>>

(* ------------------------------------------------------------------ *)
(* AgentNotificationConsumer: connect, disconnect, receive               *)
(* ------------------------------------------------------------------ *)
\* AgentNotificationConsumer.check_if_agent: False for any exception
check_if_agent(u) == ~StoreDown /\ u \in agent_users

\* AgentNotificationConsumer.connect
NotifyConnect(n, cred) ==
  /\ agent_sessions[n].pc = "idle"
  /\ LET user == scope_user(cred)
         base == [IdleAgentSession EXCEPT !.user = user]
     IN IF ~is_authenticated(user)
        THEN /\ agent_sessions' = [agent_sessions EXCEPT ![n] =
                   [base EXCEPT !.pc = "closing", !.code = CodeUnauthenticated]]
             /\ agent_groups' = agent_groups
        ELSE IF ~check_if_agent(user)
        THEN /\ agent_sessions' = [agent_sessions EXCEPT ![n] =
                   [base EXCEPT !.pc = "closing", !.code = CodeNotParticipant]]
             /\ agent_groups' = agent_groups
        ELSE IF LayerDown
        THEN \* group_add raises: the consumer ends before accept()
             /\ agent_sessions' = [agent_sessions EXCEPT ![n] =
                   [base EXCEPT !.pc = "dead", !.has_group_name = TRUE]]
             /\ agent_groups' = agent_groups
        ELSE /\ agent_sessions' = [agent_sessions EXCEPT ![n] =
                   [base EXCEPT !.pc = "open", !.has_group_name = TRUE]]
             /\ agent_groups' = group_add(agent_groups, user, n)
  /\ outbox' = NoOutput
  /\ UNCHANGED <<failing, calls, agent_users, conversations, participants, messages, typing, now,
                 sessions, groups>>

\* AgentNotificationConsumer.disconnect
NotifyDisconnect(n) ==
  /\ agent_sessions[n].pc \in {"open", "closing"}
  /\ LET me == agent_sessions[n]
     IN IF me.has_group_name /\ LayerDown
        THEN \* group_discard raises: the channel stays in the group
             /\ agent_sessions' = [agent_sessions EXCEPT ![n].pc = "dead"]
             /\ agent_groups' = agent_groups
        ELSE IF me.has_group_name
        THEN /\ agent_groups' = group_discard(agent_groups, me.user, n)
             /\ agent_sessions' = [agent_sessions EXCEPT ![n] = IdleAgentSession]
        ELSE /\ agent_groups' = agent_groups
             /\ agent_sessions' = [agent_sessions EXCEPT ![n] = IdleAgentSession]
  /\ outbox' = NoOutput
  /\ UNCHANGED <<failing, calls, agent_users, conversations, participants, messages, typing, now,
                 sessions, groups>>

\* AgentNotificationConsumer.receive: text is parsed and ignored; for a binary
\* frame the call receive(bytes_data=...) raises TypeError and the consumer ends
NotifyReceive(n, frame) ==
  /\ agent_sessions[n].pc = "open"
  /\ agent_sessions' = IF frame.json = "binary"
                       THEN [agent_sessions EXCEPT ![n].pc = "dead"]
                       ELSE agent_sessions
  /\ outbox' = NoOutput
  /\ UNCHANGED <<failing, calls, agent_users, conversations, participants, messages, typing, now,
                 sessions, groups, agent_groups>>

\* The database, or the backend of the channel layer, goes away or comes back
StoreOutage ==
  /\ failing' = IF StoreDown THEN failing \ {"store"} ELSE failing \cup {"store"}
  /\ outbox' = NoOutput
  /\ UNCHANGED <<calls, agent_users, conversations, participants, messages, typing, now, sessions,
                 groups, agent_sessions, agent_groups>>

LayerOutage ==
  /\ failing' = IF LayerDown THEN failing \ {"channel_layer"}
                ELSE failing \cup {"channel_layer"}
  /\ outbox' = NoOutput
  /\ UNCHANGED <<calls, agent_users, conversations, participants, messages, typing, now, sessions,
                 groups, agent_sessions, agent_groups>>

\* timezone.now() advances
Tick ==
  /\ now < MaxTime
  /\ now' = now + 1
  /\ outbox' = NoOutput
  /\ UNCHANGED <<failing, agent_sessions, agent_groups, calls, agent_users, conversations, participants, messages, typing, sessions, groups>>

TargetConvs == DOMAIN conversations \cup {NoSuchConv}

AgentIds == Users \cup {NoAgent, GhostId}

\* Consumer slots are interchangeable: the second is taken while the first is in use
SlotFree(s) == s = "s1" \/ sessions["s1"].pc # "idle"

\* The streaming path: sessions S of ChatConsumer receiving the frames F,
\* opened with the credentials C
StreamNext(S, F, C) ==
  \/ \E s \in S, cred \in C, c \in TargetConvs : SlotFree(s) /\ Connect(s, cred, c)
  \/ \E s \in S : Disconnect(s)
  \/ \E s \in S, frame \in F : Receive(s, frame)

\* The second half of handle_message, for the sessions that saved a message
Deliver(S) == \E s \in S : Broadcast(s)

FramesOf(types) ==
  {f \in InFrames : f.type \in types /\ f.content \in {<<>>, <<" ">>, <<" ", "y", " ">>}}

ValidCredentials == {cred \in Credentials : cred.valid /\ cred.user_id \in Users}

\* The notification path: consumers of AgentNotificationConsumer opened with
\* the credentials C
NotifyNext(C) ==
  \/ \E n \in NotificationSessions, cred \in C :
       /\ n = "n1" \/ agent_sessions["n1"].pc # "idle"
       /\ NotifyConnect(n, cred)
  \/ \E n \in NotificationSessions : NotifyDisconnect(n)
  \/ \E n \in NotificationSessions, frame \in FramesOf({"", "bytes"}) : NotifyReceive(n, frame)

\* The request/response path: the views of ConversationViewSet
Create == \E u \in Users, a \in AgentIds, m \in {<<>>, <<" ", "y", " ">>} : CreateView(u, a, m)

\* Requests for a conversation without an initial message, by a user and by
\* an agent
Request == \E u \in {"u1", "a1"}, a \in AgentIds : CreateView(u, a, <<>>)

Close == \E u \in Users, c \in TargetConvs : CloseView(u, c)

Send ==
  \E u \in Users, c \in TargetConvs, m \in {<<" ">>, <<" ", "y", " ">>} :
     SendMessageView(u, c, m, "text")

Read == \E u \in Users, c \in TargetConvs : ReadView(u, c)

\* The conversation lifecycle through the views, from the empty store
Next == Create \/ Close \/ Send

Spec == Init /\ [][Next]_vars

\* Stores that get_or_create_conversation builds when a1 is the only agent:
\* u1 has called it, and then a2
EmptyStore == [conversations |-> <<>>, participants |-> <<>>, messages |-> <<>>]

OneConversation == create_conversation(EmptyStore, "u1", "a1", "delivered").st

TwoConversations == create_conversation(OneConversation, "a2", "a1", "delivered").st

StartingFrom(st) ==
  /\ agent_users = {"a1"}
  /\ now = 1
  /\ conversations = st.conversations
  /\ participants = st.participants
  /\ messages = st.messages
  /\ typing = <<>>
  /\ sessions = [s \in Sessions |-> IdleSession]
  /\ groups = [c \in 0..MaxConvs |-> {}]
  /\ outbox = NoOutput
  /\ failing = {}
  /\ agent_sessions = [n \in NotificationSessions |-> IdleAgentSession]
  /\ agent_groups = [a \in Users |-> {}]
  /\ calls = [k \in Callers |-> IdleCall]

\* Two sessions over two conversations: connecting, messages, closing
StreamSpec ==
  StartingFrom(TwoConversations)
    /\ [][Close \/ StreamNext(Sessions, FramesOf({"", "message"}), ValidCredentials)
          \/ Deliver(Sessions)]_vars

\* Two sessions over one conversation: typing and read receipts
PresenceSpec ==
  StartingFrom(OneConversation)
    /\ [][Close \/ StreamNext(Sessions, FramesOf({"typing", "read"}), Credentials)]_vars

\* Two sessions exchanging messages over one conversation
MessageSpec ==
  StartingFrom(OneConversation)
    /\ [][Close \/ StreamNext(Sessions, InFrames \ FramesOf({"typing", "read", "bytes"}),
                              ValidCredentials)
          \/ Deliver(Sessions)]_vars

\* Messages sent and marked read, through the views and through a session,
\* over one conversation while time passes
ReadSpec ==
  StartingFrom(OneConversation)
    /\ [][Tick \/ Close \/ Read \/ Send
          \/ StreamNext({"s1"}, FramesOf({"read"}), ValidCredentials)]_vars

\* Two sessions over one conversation and the ways they end: the socket
\* goes away, or the client sends a binary frame
TerminationSpec ==
  StartingFrom(OneConversation)
    /\ [][Close \/ StreamNext(Sessions, FramesOf({"bytes", "typing"}), ValidCredentials)]_vars

\* One session and the views over one conversation, before and after its close
CloseSpec ==
  StartingFrom(OneConversation)
    /\ [][Close \/ Read \/ Send
          \/ StreamNext({"s1"}, FramesOf({"message", "typing", "read"}), ValidCredentials)
          \/ Deliver({"s1"})]_vars

\* Conversations created and closed through the views while agents open and
\* close their notification channels and the channel layer comes and goes
NotifySpec ==
  Init /\ [][Request \/ Close \/ LayerOutage \/ NotifyNext(ValidCredentials)]_vars

\* Two threads calling get_or_create_conversation at the same time
CreateRaceSpec ==
  Init /\ [][\/ \E k \in Callers, u \in {"u1", "a1"}, a \in {NoAgent, "a1", "a2"} :
                  LookupExisting(k, u, a)
             \/ \E k \in Callers : CreateBlock(k)
             \/ \E k \in Callers : Return(k)]_vars

\* The queries of send_message in a thread
SendSteps(k) == SendInsert(k) \/ SendStamp(k) \/ SendSave(k)

\* Two threads, each sending to or closing the one conversation, once
SendCloseRaceSpec ==
  StartingFrom(OneConversation)
    /\ [][\/ \E k \in Callers, u \in Users : SendValidate(k, u, 1, <<"y">>)
          \/ \E k \in Callers : SendSteps(k)
          \/ \E k \in Callers, u \in Users : CloseValidate(k, u, 1)
          \/ \E k \in Callers : CloseFlag(k)
          \/ \E k \in Callers : CloseRows(k)]_vars

\* Two threads, each sending to the one conversation once, while time passes
SendRaceSpec ==
  StartingFrom(OneConversation)
    /\ [][\/ \E k \in Callers, u \in Users : SendValidate(k, u, 1, <<"y">>)
          \/ \E k \in Callers : SendSteps(k)
          \/ Tick]_vars

\* Two sessions joining and leaving the group of one conversation while
\* messages, typing indicators and the closing are broadcast to it
GroupSpec ==
  StartingFrom(OneConversation)
    /\ [][Close
          \/ StreamNext(Sessions, FramesOf({"message", "typing"}), ValidCredentials)
          \/ Deliver(Sessions)]_vars

\* Conversations created with and without an initial message, and closed
CreationSpec == Init /\ [][Create \/ Close]_vars

\* The store after conversation 1 was created at time 1, u1 and a1 have
\* connected to it and each has saved a message, u1 at time 1 and a1 at time 2
TwoSaved ==
  LET st0 == update_participant_online_status(
               update_participant_online_status(OneConversation, 1, "u1", TRUE), 1, "a1", TRUE)
      m1 == [NewMessage(st0, 1, "u1", <<"y">>, "text") EXCEPT !.created_at = 1]
      m2 == [NewMessage(st0, 1, "a1", <<"y">>, "text") EXCEPT !.created_at = 2]
  IN [st0 EXCEPT !.messages = Append(Append([@ EXCEPT ![1].created_at = 1], m1), m2),
                 !.conversations = [@ EXCEPT ![1].created_at = 1, ![1].updated_at = 2]]

\* Both handle_message runs are between save_message and group_send
BothSaving ==
  /\ agent_users = {"a1"}
  /\ now = 2
  /\ conversations = TwoSaved.conversations
  /\ participants = TwoSaved.participants
  /\ messages = TwoSaved.messages
  /\ typing = <<>>
  /\ sessions = [s \in Sessions |->
                   [IdleSession EXCEPT !.pc = "saving", !.conversation_id = 1,
                                       !.has_group_name = TRUE, !.has_user_id = TRUE,
                                       !.user = IF s = "s1" THEN "u1" ELSE "a1",
                                       !.pending = IF s = "s1" THEN Len(messages) - 1
                                                   ELSE Len(messages)]]
  /\ groups = [c \in 0..MaxConvs |-> IF c = 1 THEN Sessions ELSE {}]
  /\ outbox = NoOutput
  /\ failing = {}
  /\ agent_sessions = [n \in NotificationSessions |-> IdleAgentSession]
  /\ agent_groups = [a \in Users |-> {}]
  /\ calls = [k \in Callers |-> IdleCall]

\* Two sessions that have each saved a message and not yet broadcast it
OrderSpec ==
  BothSaving
    /\ [][Close \/ StreamNext(Sessions, FramesOf({"message"}), ValidCredentials)
          \/ Deliver(Sessions)]_vars

\* Messages stored through the views while sessions are joined and exchange
\* messages of their own
RestSpec ==
  StartingFrom(OneConversation)
    /\ [][Create \/ Send
          \/ StreamNext(Sessions, FramesOf({"message"}), ValidCredentials)
          \/ Deliver(Sessions)]_vars

\* Two sessions over one conversation while the database comes and goes
StoreFaultSpec ==
  StartingFrom(OneConversation)
    /\ [][StoreOutage \/ Close
          \/ StreamNext(Sessions, FramesOf({"message"}), ValidCredentials)
          \/ Deliver(Sessions)]_vars

\* Typing and read receipts of two sessions while the database comes and goes
StoreFaultPresenceSpec ==
  StartingFrom(OneConversation)
    /\ [][StoreOutage
          \/ StreamNext(Sessions, FramesOf({"typing", "read"}), ValidCredentials)]_vars

\* Two sessions over one conversation while the channel layer comes and goes
LayerFaultSpec ==
  StartingFrom(OneConversation)
    /\ [][LayerOutage \/ Close
          \/ StreamNext(Sessions, FramesOf({"message", "typing"}), ValidCredentials)
          \/ Deliver(Sessions)]_vars

(* ------------------------------------------------------------------ *)
(* Properties                                                           *)
(* ------------------------------------------------------------------ *)
\* The frames the last step wrote to the socket of session s
Received(s) == {outbox[s][i] : i \in DOMAIN outbox[s]}

\* The frames that consumers write on behalf of a group_send
BroadcastTypes == {"message", "typing", "presence", "read", "conversation_closed"}

\* Session s is an established member of the group of conversation c
Joined(s, c) ==
  /\ c \in DOMAIN groups
  /\ s \in groups[c]
  /\ sessions[s].pc \in {"open", "saving"}
  /\ sessions[s].conversation_id = c

\* Session t is handed a 'message' frame for message id with this content
DeliveredTo(ob, t, id, content) ==
  \E i \in DOMAIN ob[t] :
    ob[t][i].type = "message" /\ ob[t][i].id = id /\ ob[t][i].content = content

MessageFrames == {f \in InFrames : f.json = "object" /\ message_type_of(f) = "message"}
TypingFrames == {f \in FramesOf({"typing"}) : f.json = "object"}

\* One event of each type for the group of conversation c
SampleEvents(c) ==
  UNION {{ChatMessageEvent(c, [sender |-> u, id |-> 0, content |-> <<"h">>,
                               message_type |-> "text"]),
          TypingEvent(c, u, TRUE), PresenceEvent(c, u, FALSE), ReadEvent(c, u),
          ClosedEvent(c, u)} : u \in Users}

(* C1: a 'message' event reaches only sessions whose user was an active      *)
(* participant of the message's conversation when the message was sent       *)
(* (persisted), whatever connects, sends, closes and disconnects came before *)
C1_OnlyActiveParticipantsReceive ==
  \A s \in Sessions : \A f \in Received(s) :
    f.type = "message" =>
      /\ f.id \in DOMAIN messages
      /\ messages[f.id].conversation = f.conv
      /\ sessions[s].user \in messages[f.id].audience

C1_Witness ==
  \E s \in Sessions : \E f \in Received(s) :
    f.type = "message" /\ f.user_id # sessions[s].user

(* C2: an event broadcast to the group of conversation c is written to no   *)
(* session that is joined to another conversation's group or that has        *)
(* completed its disconnect: both for the frames actually written and for    *)
(* an event of any type sent to any group in any reachable state             *)
C2_OnlyJoinedSessionsReceive ==
  /\ \A s \in Sessions : \A f \in Received(s) :
       f.type \in BroadcastTypes => Joined(s, f.conv)
  /\ \A c \in DOMAIN groups : \A ev \in SampleEvents(c) : \A s \in Sessions :
       group_send(NoOutput, sessions, groups, c, ev)[s] # <<>> => Joined(s, c)

C2_Witness ==
  \E s, t \in Sessions :
    /\ sessions[s].pc = "open" /\ sessions[t].pc = "open"
    /\ sessions[s].user = sessions[t].user
    /\ sessions[s].conversation_id # sessions[t].conversation_id
    /\ \E f \in Received(s) : f.type = "message"
    /\ outbox[t] = <<>>

(* C3 (as amended): when an established session sends a 'message' whose     *)
(* content is non-empty after trimming while its user is still an active     *)
(* participant, the message is persisted and then every session in the       *)
(* group, the sender's included, receives a 'message' event with the content *)
C3_PersistedMessageReachesGroup ==
  [][\A s \in Sessions :
       LET c == sessions[s].conversation_id
           id == sessions[s].pending
       IN /\ \A f \in MessageFrames :
               (/\ strip(f.content) # <<>>
                /\ validate_participant_access(St, c, sessions[s].user)
                /\ Receive(s, f))
               => /\ sessions'[s].pc = "saving"
                  /\ sessions'[s].pending \in DOMAIN messages' \ DOMAIN messages
                  /\ messages'[sessions'[s].pending].content = strip(f.content)
          /\ Broadcast(s) =>
               /\ s \in groups[c]
               /\ \A t \in groups[c] : DeliveredTo(outbox', t, id, messages[id].content)]_vars

C3_Witness ==
  \E s, t \in Sessions : \E f \in Received(s) :
    /\ sessions[s].user # sessions[t].user
    /\ Joined(s, f.conv) /\ Joined(t, f.conv)
    /\ f.type = "message" /\ f.user_id = sessions[s].user
    /\ f \in Received(t)

(* C3 as stated: every 'message' with non-empty content that an established  *)
(* session sends is broadcast to the whole group                             *)
C3_EveryMessageReachesGroup ==
  [][\A s \in Sessions :
       LET c == sessions[s].conversation_id
           id == sessions[s].pending
       IN /\ \A f \in MessageFrames :
               (f.content # <<>> /\ Receive(s, f)) => sessions'[s].pc = "saving"
          /\ Broadcast(s) =>
               \A t \in groups[c] : DeliveredTo(outbox', t, id, messages[id].content)]_vars

(* C4: when a session of user U sends a 'typing' event, every session of a  *)
(* different user in the group receives the 'typing' event with U and the    *)
(* flag, and the originating session receives no typing event                *)
C4_TypingReachesOthersOnly ==
  [][\A s \in Sessions : \A f \in TypingFrames :
       Receive(s, f) =>
         LET c == sessions[s].conversation_id
             u == sessions[s].user
         IN /\ \A t \in groups[c] :
                 sessions[t].user # u =>
                   outbox'[t] = <<Frame("typing", c, u, 0, <<>>, f.is_typing, "")>>
            /\ \A i \in DOMAIN outbox'[s] : outbox'[s][i].type # "typing"]_vars

C4_Witness ==
  \E s, t \in Sessions :
    /\ sessions[s].pc = "open" /\ sessions[t].pc = "open"
    /\ sessions[s].user # sessions[t].user
    /\ \E f \in Received(t) : f.type = "typing" /\ f.user_id = sessions[s].user /\ f.flag
    /\ outbox[s] = <<>>

(* C5: every 'message' event a session receives refers to a message that    *)
(* was persisted before the broadcast step, and the first page of the        *)
(* conversation's history returns that message with the same content and     *)
(* sender                                                                    *)
C5_ReceivedMessagesArePersisted ==
  [][\A s \in Sessions : \A i \in DOMAIN outbox'[s] :
       LET f == outbox'[s][i]
       IN f.type = "message" =>
            /\ f.id \in DOMAIN messages
            /\ messages[f.id].content = f.content
            /\ messages[f.id].sender = f.user_id
            /\ \A page \in get_conversation_messages(St, f.conv, DefaultPageSize, 0) :
                 \E k \in DOMAIN page : page[k] = f.id]_vars

C5_Witness ==
  \E s \in Sessions : \E f \in Received(s) :
    /\ f.type = "message"
    /\ f.id \in DOMAIN messages
    /\ Cardinality({i \in DOMAIN messages : messages[i].conversation = f.conv}) >= 2

\* The handshake carried a token that verifies and names an existing user
ValidIdentity(cred) == cred.present /\ cred.valid /\ cred.user_id \in Users

\* User u holds an active participant row of the existing, open conversation c
ActiveParticipant(c, u) ==
  /\ c \in DOMAIN conversations
  /\ conversations[c].is_active
  /\ <<c, u>> \in DOMAIN participants
  /\ participants[<<c, u>>].is_active

(* C6: a connect by an authenticated user who is not an active participant *)
(* is closed with 4003, and neither the connect nor the disconnect handler   *)
(* that runs afterwards adds the session to a group, changes an online flag  *)
(* or delivers an event to a session                                         *)
C6_RejectedConnectHasNoEffect ==
  [][\A s \in Sessions :
       /\ \A cred \in Credentials, c \in TargetConvs :
            (ValidIdentity(cred) /\ ~ActiveParticipant(c, cred.user_id) /\ Connect(s, cred, c))
            => /\ sessions'[s].code = CodeNotParticipant
               /\ participants' = participants /\ groups' = groups /\ outbox' = NoOutput
       /\ (sessions[s].pc = "closing" /\ sessions[s].code = CodeNotParticipant /\ Disconnect(s))
            => participants' = participants /\ groups' = groups /\ outbox' = NoOutput]_vars

(* C7: a connect is rejected with 4001 exactly when no valid identity was   *)
(* resolved and with 4003 exactly when the identity is valid but its user is *)
(* not an active participant of the target conversation (a closed or a       *)
(* non-existent one included); otherwise it is accepted                      *)
C7_CloseCodes ==
  [][\A s \in Sessions : \A cred \in Credentials, c \in TargetConvs :
       (sessions'[s].conversation_id = c /\ Connect(s, cred, c)) =>
         /\ sessions'[s].code = CodeUnauthenticated <=> ~ValidIdentity(cred)
         /\ sessions'[s].code = CodeNotParticipant
              <=> (ValidIdentity(cred) /\ ~ActiveParticipant(c, cred.user_id))
         /\ sessions'[s].pc = "open"
              <=> (ValidIdentity(cred) /\ ActiveParticipant(c, cred.user_id))
         /\ sessions'[s].pc \in {"open", "closing"}]_vars

C7_Witness ==
  \E s, t \in Sessions :
    /\ sessions[s].pc = "closing" /\ sessions[s].code = CodeUnauthenticated
    /\ sessions[s].conversation_id = NoSuchConv
    /\ sessions[t].pc = "closing" /\ sessions[t].code = CodeNotParticipant
    /\ sessions[t].conversation_id \in DOMAIN conversations
    /\ ~conversations[sessions[t].conversation_id].is_active

(* C8: once a conversation is closed, sendMessage by any user, through the  *)
(* service or through a session's save_message, is rejected (PermissionDenied) *)
(* and persists no message                                                   *)
C8_ClosedConversationRejectsSend ==
  \A c \in DOMAIN conversations :
    ~conversations[c].is_active =>
      \A u \in Users, content \in {<<"h">>, <<"y">>}, mt \in {"text", "system"} :
        /\ send_message(St, c, u, content, mt).err = "PermissionDenied"
        /\ send_message(St, c, u, content, mt).st = St
        /\ save_message(St, c, u, content).err = "PermissionDenied"
        /\ save_message(St, c, u, content).st = St

C8_Witness ==
  \E c \in DOMAIN conversations :
    /\ ~conversations[c].is_active
    /\ \E i \in DOMAIN messages :
         messages[i].conversation = c /\ messages[i].message_type = "text"

\* The participant rows and the messages of conversation c in a store
RowsOf(ps, c) == {k \in DOMAIN ps : k[1] = c}
MessagesOf(ms, c) == {i \in DOMAIN ms : ms[i].conversation = c}

\* The membership part of a participant row
Membership(row) == [role |-> row.role, is_active |-> row.is_active, left_at |-> row.left_at]

C10_NewConversationWithOneAgent ==
  \A u \in Users :
    ExistingConversations(St, u) = {} =>
      \A r \in get_or_create_conversation(St, u, NoAgent) :
        /\ r.err = ""
        /\ r.created
        /\ agent_users # {} =>
             \E a \in agent_users :
               /\ {k \in RowsOf(r.st.participants, r.id) :
                     r.st.participants[k].role = "agent"} = {<<r.id, a>>}
               /\ r.st.participants[<<r.id, a>>].is_active
               /\ Cardinality({i \in MessagesOf(r.st.messages, r.id) :
                     r.st.messages[i].message_type = "system"}) = 1
               /\ \E i \in MessagesOf(r.st.messages, r.id) :
                     /\ r.st.messages[i].message_type = "system"
                     /\ r.st.messages[i].content = JoinedContent(a)

(* C11: when a user who holds role 'user' in an active conversation calls   *)
(* get_or_create_conversation without an agent id, the call returns          *)
(* created = FALSE with the most recently updated of the user's active       *)
(* conversations (the one conversation, when the user has one), sends no     *)
(* notification and leaves every conversation, participant and message as    *)
(* it was                                                                    *)
C11_SecondCallReturnsExisting ==
  \A u \in Users :
    ExistingConversations(St, u) # {} =>
      /\ get_or_create_conversation(St, u, NoAgent) # {}
      /\ \A r \in get_or_create_conversation(St, u, NoAgent) :
           /\ r.err = ""
           /\ ~r.created
           /\ r.id \in ExistingConversations(St, u)
           /\ \A d \in ExistingConversations(St, u) :
                conversations[d].updated_at <= conversations[r.id].updated_at
           /\ r.st = St
           /\ r.notify = NoAgent

C11_Witness ==
  \E u \in Users : \E c \in ExistingConversations(St, u) :
    /\ ExistingConversations(St, u) = {c}
    /\ \E k \in RowsOf(participants, c) : participants[k].role = "agent"
    /\ \E i \in MessagesOf(messages, c) : messages[i].message_type = "text"

\* The store after the step
StNext == [conversations |-> conversations', participants |-> participants',
           messages |-> messages']

\* The step marks the conversation c read for user u: the read view for an
\* accessible conversation, or a 'read' frame of a session of u on c
MarksRead(c, u) ==
  \/ c \in get_user_conversations(St, u) /\ ReadView(u, c)
  \/ \E s \in Sessions :
       /\ sessions[s].user = u /\ sessions[s].conversation_id = c
       /\ \E f \in FramesOf({"read"}) : Receive(s, f)

(* C12: the unread count of a participant without read marker is the number *)
(* of messages of the conversation that the participant's user did not send; *)
(* right after the participant marks read it is 0; and it rises in a step    *)
(* only when that step adds a message of another user to the conversation    *)
C12_UnreadCount ==
  /\ [](\A k \in DOMAIN participants :
          participants[k].last_read_at = Null =>
            get_unread_count(St, k[1], k[2]) =
              Cardinality({i \in MessagesOf(messages, k[1]) : messages[i].sender # k[2]}))
  /\ [][\A k \in DOMAIN participants :
          /\ MarksRead(k[1], k[2]) =>
               /\ messages' = messages
               /\ get_unread_count(StNext, k[1], k[2]) = 0
          /\ get_unread_count(StNext, k[1], k[2]) > get_unread_count(St, k[1], k[2]) =>
               \E i \in DOMAIN messages' \ DOMAIN messages :
                 messages'[i].conversation = k[1] /\ messages'[i].sender # k[2]]_vars

C12_Witness ==
  \E k \in DOMAIN participants :
    /\ participants[k].last_read_at # Null
    /\ get_unread_count(St, k[1], k[2]) > 0
    /\ \E i \in MessagesOf(messages, k[1]) :
         messages[i].sender # k[2] /\ messages[i].created_at <= participants[k].last_read_at

(* C13: marking read, a first or a repeated time, sets last_read_at to a    *)
(* time not before the marker it replaces, leaves the unread count at 0 and  *)
(* changes nothing but that participant's last_read_at; a second call at the *)
(* same instant leaves the store of the first; a call for a user without     *)
(* participant row changes nothing                                           *)
C13_MarkReadIdempotent ==
  /\ [](\A c \in TargetConvs, u \in Users :
          /\ mark_messages_as_read(mark_messages_as_read(St, c, u), c, u)
               = mark_messages_as_read(St, c, u)
          /\ <<c, u>> \notin DOMAIN participants => mark_messages_as_read(St, c, u) = St)
  /\ [][\A k \in DOMAIN participants :
          MarksRead(k[1], k[2]) =>
            /\ participants'[k].last_read_at # Null
            /\ participants'[k].last_read_at >= participants[k].last_read_at
            /\ get_unread_count(StNext, k[1], k[2]) = 0
            /\ participants' =
                 [participants EXCEPT ![k].last_read_at = participants'[k].last_read_at]
            /\ conversations' = conversations /\ messages' = messages
            /\ typing' = typing]_vars

C13_Witness ==
  \E k \in DOMAIN participants :
    /\ participants[k].last_read_at = now /\ now > 1
    /\ \E i \in MessagesOf(messages, k[1]) :
         messages[i].sender # k[2] /\ messages[i].created_at = now
    /\ get_unread_count(St, k[1], k[2]) = 0

\* The creation times along a list of message ids never decrease
NonDecreasing(q) ==
  \A i, j \in DOMAIN q : i < j => messages[q[i]].created_at <= messages[q[j]].created_at

(* C14: the list the history view returns (and every page of the service,   *)
(* read backwards) is non-decreasing by creation time, and with a 'before'   *)
(* cursor M every returned message was created strictly before M             *)
C14_HistoryOrdered ==
  \A c \in DOMAIN conversations, size \in {1, 2, DefaultPageSize},
     before \in {0} \cup DOMAIN messages :
    /\ \A page \in get_conversation_messages(St, c, size, before) :
         /\ NonDecreasing(Reverse(page))
         /\ before \in DOMAIN messages =>
              \A i \in DOMAIN page :
                messages[page[i]].created_at < messages[before].created_at
    /\ \A u \in Users : \A resp \in messages_view(St, u, c, size, before) :
         resp.status = 200 =>
           /\ NonDecreasing(resp.results)
           /\ before \in DOMAIN messages =>
                \A i \in DOMAIN resp.results :
                  messages[resp.results[i]].created_at < messages[before].created_at

C14_Witness ==
  \E c \in DOMAIN conversations : \E i, j \in MessagesOf(messages, c) :
    /\ messages[i].created_at < messages[j].created_at
    /\ \E resp \in messages_view(St, "u1", c, DefaultPageSize, 0) :
         resp.status = 200 /\ Len(resp.results) >= 2
    /\ get_conversation_messages(St, c, DefaultPageSize, j) # {<<>>}

\* User u holds an active participant row of conversation c
HoldsActiveRow(c, u) ==
  <<c, u>> \in DOMAIN participants /\ participants[<<c, u>>].is_active

(* C15: send_message by a sender who is not an active participant of the    *)
(* conversation raises PermissionDenied and leaves the store as it was: no   *)
(* message is created and updated_at is not modified                         *)
C15_NonParticipantSendRejected ==
  \A c \in DOMAIN conversations, u \in Users :
    ~HoldsActiveRow(c, u) =>
      \A mt \in {"text", "system"} :
        /\ send_message(St, c, u, <<"h">>, mt).err = "PermissionDenied"
        /\ send_message(St, c, u, <<"h">>, mt).st.messages = messages
        /\ send_message(St, c, u, <<"h">>, mt).st.conversations = conversations
        /\ send_message(St, c, u, <<"h">>, mt).st.participants = participants

C15_Witness ==
  \E c \in DOMAIN conversations, u \in Users :
    /\ conversations[c].is_active
    /\ <<c, u>> \notin DOMAIN participants
    /\ \E i \in MessagesOf(messages, c) : messages[i].message_type = "text"

(* C16: close_conversation by a user who is not an active participant      *)
(* raises PermissionDenied and changes nothing; by an active participant it  *)
(* sets the conversation inactive, leaves every participant of it inactive   *)
(* with left_at set, and changes no other conversation, no participant of    *)
(* another conversation and no message                                       *)
C16_CloseConversation ==
  \A c \in DOMAIN conversations, u \in Users :
    LET r == close_conversation(St, c, u)
    IN IF ~HoldsActiveRow(c, u)
       THEN r.err = "PermissionDenied" /\ r.st = St
       ELSE /\ r.err = ""
            /\ ~r.st.conversations[c].is_active
            /\ DOMAIN r.st.conversations = DOMAIN conversations
            /\ \A d \in DOMAIN conversations \ {c} : r.st.conversations[d] = conversations[d]
            /\ DOMAIN r.st.participants = DOMAIN participants
            /\ \A k \in DOMAIN participants :
                 IF k[1] = c
                 THEN /\ ~r.st.participants[k].is_active
                      /\ r.st.participants[k].left_at # Null
                      /\ r.st.participants[k].role = participants[k].role
                 ELSE r.st.participants[k] = participants[k]
            /\ r.st.messages = messages

C16_Witness ==
  \E c, d \in DOMAIN conversations :
    /\ ~conversations[c].is_active
    /\ \A k \in RowsOf(participants, c) :
         ~participants[k].is_active /\ participants[k].left_at # Null
    /\ conversations[d].is_active
    /\ \E k \in RowsOf(participants, d) : participants[k].is_active

\* The active 'agent' participations of user a in active conversations
ActiveAgentParticipations(a) ==
  Cardinality({k \in DOMAIN participants :
      /\ k[2] = a
      /\ participants[k].role = "agent"
      /\ participants[k].is_active
      /\ conversations[k[1]].is_active})

C18_NoAgentStillCreates ==
  agent_users = {} =>
    \A u \in Users, agent_id \in AgentIds :
      ExistingConversations(St, u) = {} =>
        /\ get_or_create_conversation(St, u, agent_id) # {}
        /\ \A r \in get_or_create_conversation(St, u, agent_id) :
             /\ r.err = ""
             /\ r.created
             /\ r.id \notin DOMAIN conversations
             /\ r.st.conversations[r.id].is_active
             /\ RowsOf(r.st.participants, r.id) = {<<r.id, u>>}
             /\ r.st.participants[<<r.id, u>>].role = "user"
             /\ r.st.participants[<<r.id, u>>].is_active
             /\ r.st.messages = messages
             /\ r.notify = NoAgent

C18_Witness ==
  /\ agent_users = {}
  /\ \E c \in DOMAIN conversations :
       /\ Cardinality(RowsOf(participants, c)) = 1
       /\ \A i \in MessagesOf(messages, c) : messages[i].message_type = "text"

(* C19: whatever the notification's group_send does (delivers, finds no     *)
(* channel, raises), the creation returns what it returns when the delivery  *)
(* succeeds, and for an assigned agent other than the caller that is         *)
(* created = TRUE with the conversation, both participants and the system    *)
(* message persisted                                                         *)
C19_NotificationFailureIsHarmless ==
  \A u \in Users, a \in agent_users, o \in NotifyOutcomes :
    LET r == create_conversation(St, u, a, o)
        d == create_conversation(St, u, a, "delivered")
    IN /\ r.err = d.err /\ r.created = d.created /\ r.id = d.id /\ r.st = d.st
       /\ a # u =>
            /\ r.err = "" /\ r.created
            /\ r.id \notin DOMAIN conversations
            /\ RowsOf(r.st.participants, r.id) = {<<r.id, u>>, <<r.id, a>>}
            /\ \E i \in MessagesOf(r.st.messages, r.id) :
                 /\ r.st.messages[i].message_type = "system"
                 /\ r.st.messages[i].content = JoinedContent(a)
            /\ r.notify = IF o = "delivered" THEN a ELSE NoAgent

C19_Witness ==
  \E c \in DOMAIN conversations : \E a \in agent_users :
    /\ Cardinality(RowsOf(participants, c)) = 2
    /\ <<c, a>> \in DOMAIN participants /\ participants[<<c, a>>].role = "agent"
    /\ \E i \in MessagesOf(messages, c) : messages[i].content = JoinedContent(a)

\* The step ends the established session s: its disconnect() ran, or its
\* consumer died
Terminates(s) == sessions[s].pc = "open" /\ sessions'[s].pc \in {"idle", "dead"}

\* After the step, s has left the group of its conversation, online = FALSE
\* is stored for its participant row, and the connected sessions of other
\* users in the group were written the presence-offline event
CleanedUp(s) ==
  LET c == sessions[s].conversation_id
      u == sessions[s].user
  IN /\ s \notin groups'[c]
     /\ ~participants'[<<c, u>>].is_online
     /\ \A t \in groups[c] \ {s} :
          (sessions[t].pc \in {"open", "saving"} /\ sessions[t].user # u) =>
            \E i \in DOMAIN outbox'[t] :
              /\ outbox'[t][i].type = "presence"
              /\ outbox'[t][i].user_id = u
              /\ ~outbox'[t][i].flag

(* C20: whenever an established session ends, by whatever path, it is no    *)
(* longer in the conversation group, online = FALSE is persisted for its     *)
(* (conversation, user) and the presence-offline event is written to the     *)
(* other users' sessions of the group                                        *)
C20_TerminationCleansUp ==
  [][\A s \in Sessions : Terminates(s) => CleanedUp(s)]_vars

\* The same for the sessions that end through disconnect()
DisconnectCleansUp ==
  [][\A s \in Sessions : (Terminates(s) /\ sessions'[s].pc = "idle") => CleanedUp(s)]_vars

\* The inbound frames whose payload is no JSON object, and those whose type
\* tag is none of message, typing, read
Undecodable == {f \in InFrames : f.json # "object"}
UnknownTag == {f \in InFrames : f.json = "object" /\ f.type = "other"}

\* Session s alone is answered, with one error frame; nothing is stored, and
\* s stays established and in its group
AnsweredWithError(s) ==
  /\ Len(outbox'[s]) = 1 /\ outbox'[s][1].type = "error"
  /\ \A t \in Sessions \ {s} : outbox'[t] = <<>>
  /\ UNCHANGED <<conversations, participants, messages, typing, groups>>
  /\ sessions'[s].pc = "open"
  /\ s \in groups'[sessions[s].conversation_id]

(* C21: an inbound event with an unknown type tag, or a payload that cannot *)
(* be decoded, is answered with an error event to the sending session only,  *)
(* persists nothing, and leaves the session established and in its group     *)
C21_InvalidEventsAnswered ==
  [][\A s \in Sessions : \A f \in Undecodable \cup UnknownTag :
       (sessions[s].pc = "open" /\ Receive(s, f)) => AnsweredWithError(s)]_vars

\* The same for the frames that arrive as text: text that is no JSON, JSON
\* that is no object, and an object with an unknown type tag
TextFramesAnswered ==
  [][\A s \in Sessions : \A f \in (Undecodable \cup UnknownTag) \ FramesOf({"bytes"}) :
       (sessions[s].pc = "open" /\ Receive(s, f)) => AnsweredWithError(s)]_vars

TextFramesAnswered_Witness ==
  \E s, t \in Sessions :
    /\ Joined(s, 1) /\ Joined(t, 1)
    /\ \E f \in Received(s) : f.type = "error" /\ f.text = "Unknown message type"
    /\ outbox[t] = <<>>

\* The content is empty or consists of blanks only
Blank(content) == \A i \in DOMAIN content : content[i] = " "

(* C22: an inbound 'message' event whose content is empty or whitespace-only *)
(* is rejected with an error event to the sender; no message is persisted,    *)
(* the conversation and its timestamp are unchanged, and no 'message' event   *)
(* is broadcast to any session, in that step or in a later one                *)
C22_BlankMessageRejected ==
  [][\A s \in Sessions : \A f \in MessageFrames :
       (sessions[s].pc = "open" /\ Blank(f.content) /\ Receive(s, f)) =>
         /\ outbox'[s] = <<Frame("error", sessions[s].conversation_id, sessions[s].user,
                                 0, <<>>, FALSE, "Message content cannot be empty")>>
         /\ \A t \in Sessions \ {s} : outbox'[t] = <<>>
         /\ messages' = messages
         /\ conversations' = conversations
         /\ sessions'[s].pc = "open" /\ sessions'[s].pending = 0]_vars

C22_Witness ==
  \E s, t \in Sessions :
    /\ Joined(s, 1) /\ Joined(t, 1) /\ s # t
    /\ validate_participant_access(St, 1, sessions[s].user)
    /\ \E f \in Received(s) : f.type = "error" /\ f.text = "Message content cannot be empty"
    /\ outbox[t] = <<>>

(* C23: when persisting the message of a streaming send fails (the store    *)
(* raises, or the sender is no longer an active participant), the operation  *)
(* stops before any broadcast: nothing is stored, no session other than the  *)
(* sender receives an event, no broadcast is left pending, and the sender    *)
(* receives an error event                                                   *)
C23_FailedSaveIsNotBroadcast ==
  [][\A s \in Sessions : \A f \in MessageFrames :
       (/\ sessions[s].pc = "open"
        /\ ~Blank(f.content)
        /\ StoreDown \/ ~validate_participant_access(St, sessions[s].conversation_id,
                                                      sessions[s].user)
        /\ Receive(s, f))
       => /\ outbox'[s] = <<Frame("error", sessions[s].conversation_id, sessions[s].user,
                                  0, <<>>, FALSE, "Failed to save message")>>
          /\ \A t \in Sessions \ {s} : outbox'[t] = <<>>
          /\ messages' = messages /\ conversations' = conversations
          /\ sessions'[s].pc = "open" /\ sessions'[s].pending = 0]_vars

C23_Witness ==
  \E s, t \in Sessions :
    /\ StoreDown
    /\ Joined(s, 1) /\ Joined(t, 1) /\ sessions[s].user # sessions[t].user
    /\ validate_participant_access(St, 1, sessions[s].user)
    /\ \E f \in Received(s) : f.type = "error" /\ f.text = "Failed to save message"
    /\ outbox[t] = <<>>

\* The step is one in which session s originates a typing, read or presence
\* event: it receives a 'typing' or 'read' frame, its connect is accepted, or
\* it disconnects after having been accepted
Originates(s) ==
  \/ /\ sessions[s].pc = "open"
     /\ \/ sessions'[s].pc = "idle"
        \/ \E f \in FramesOf({"typing", "read"}) : Receive(s, f)
  \/ sessions[s].pc = "idle" /\ sessions'[s].pc = "open"

\* Session t is written exactly one typing, read or presence frame about user u
GetsEventAbout(t, u) ==
  /\ Len(outbox'[t]) = 1
  /\ outbox'[t][1].type \in {"typing", "read", "presence"}
  /\ outbox'[t][1].user_id = u

(* C24 (as amended): presence, typing and read-receipt events are withheld  *)
(* by user identity: when a session of user U originates such an event, no   *)
(* session of U in the group receives it (neither the originating one nor    *)
(* another session of U), and every session of another user in the group     *)
(* receives it                                                               *)
C24_WithheldFromOriginatingUser ==
  [][\A s \in Sessions :
       Originates(s) =>
         LET u == sessions'[s].user
             c == sessions'[s].conversation_id
             uu == IF sessions[s].pc = "open" THEN sessions[s].user ELSE u
             cc == IF sessions[s].pc = "open" THEN sessions[s].conversation_id ELSE c
         IN /\ outbox'[s] = <<>>
            /\ \A t \in groups[cc] \ {s} :
                 IF sessions[t].user = uu THEN outbox'[t] = <<>> ELSE GetsEventAbout(t, uu)]_vars

C24_Witness ==
  \E s, t \in Sessions :
    /\ s # t /\ Joined(s, 1) /\ Joined(t, 1)
    /\ sessions[s].user = sessions[t].user
    /\ <<1, sessions[s].user>> \in DOMAIN typing
    /\ typing[<<1, sessions[s].user>>]
    /\ outbox[s] = <<>> /\ outbox[t] = <<>>

(* C24 as stated: the events are withheld from the originating session only: *)
(* every other session in the group, another session of the same user        *)
(* included, receives the event                                              *)
C24_WithheldFromOriginatingSessionOnly ==
  [][\A s \in Sessions :
       Originates(s) =>
         LET uu == IF sessions[s].pc = "open" THEN sessions[s].user ELSE sessions'[s].user
             cc == IF sessions[s].pc = "open" THEN sessions[s].conversation_id
                   ELSE sessions'[s].conversation_id
         IN /\ outbox'[s] = <<>>
            /\ \A t \in groups[cc] \ {s} : GetsEventAbout(t, uu)]_vars

\* Agent a holds role 'agent' as an active participant of conversation c
ActiveAgentOf(st, c, a) ==
  /\ <<c, a>> \in Rows(st)
  /\ st.participants[<<c, a>>].role = "agent"
  /\ st.participants[<<c, a>>].is_active

\* Outcome r returns the existing conversation c and leaves the store alone
ReturnsExisting(r, c) ==
  r.err = "" /\ ~r.created /\ r.id = c /\ r.st = St

\* Outcome r creates a conversation, and the existing conversation c with its
\* rows and messages is as before and still active
CreatesBeside(r, c) ==
  /\ r.err = "" /\ r.created
  /\ r.id \in DOMAIN r.st.conversations \ DOMAIN conversations
  /\ r.st.conversations[c] = conversations[c] /\ r.st.conversations[c].is_active
  /\ \A k \in Rows(St) : r.st.participants[k] = participants[k]
  /\ \A i \in DOMAIN messages : r.st.messages[i] = messages[i]

\* What get_or_create_conversation(u, a) does when u has an active
\* conversation: each outcome is right for some most-recently-updated one
ReuseOrCreate(u, a) ==
  existing_participant(St, u) # {} =>
    \A r \in get_or_create_conversation(St, u, a) :
      \E c \in existing_participant(St, u) :
        IF ActiveAgentOf(St, c, a) THEN ReturnsExisting(r, c) ELSE CreatesBeside(r, c)

(* C25: getOrCreateConversation with a requested agent returns the user's   *)
(* most-recently-updated active conversation unchanged (created = false)     *)
(* when that agent is an active 'agent' participant of it; otherwise a new   *)
(* conversation is created (created = true) and the existing one is left     *)
(* unchanged and still active                                                *)
C25_RequestedAgentReuseOrCreate ==
  \A u \in Users, a \in agent_users : ReuseOrCreate(u, a)

\* The same for the callers that are not agents themselves
ReuseOrCreateForPlainUsers ==
  \A u \in Users \ agent_users, a \in agent_users : ReuseOrCreate(u, a)

ReuseOrCreateForPlainUsers_Witness ==
  \E u \in Users \ agent_users, a, b \in agent_users :
    \E c \in existing_participant(St, u) :
      /\ ActiveAgentOf(St, c, a) /\ ~ActiveAgentOf(St, c, b)
      /\ \E r \in get_or_create_conversation(St, u, b) : r.created

Notified(x) ==
  \E i \in DOMAIN outbox'[x] : outbox'[x][i].type = "new_conversation_request"

\* The users holding the given role in conversation c after the step
HoldersAfter(c, role) ==
  {u \in Users : <<c, u>> \in DOMAIN participants' /\ participants'[<<c, u>>].role = role}

(* C27: a new_conversation_request notification is emitted only by a call   *)
(* that creates a conversation and selects an agent, never by one that       *)
(* returns an existing conversation; when the channel layer takes the send,  *)
(* every established notification session of the selected agent receives it  *)
(* once, naming the conversation and the requesting user, and no session of  *)
(* another user and no chat session receives it                              *)
C27_NotificationReachesSelectedAgent ==
  [][LET created == Len(conversations') > Len(conversations)
         c == Len(conversations')
         selected == HoldersAfter(c, "agent")
     IN /\ (\E x \in AllSessions : Notified(x)) => created /\ selected # {}
        /\ \A s \in Sessions : ~Notified(s)
        /\ (created /\ selected # {}) =>
             \A n \in NotificationSessions :
               IF /\ agent_sessions[n].pc = "open"
                  /\ agent_sessions[n].user \in selected
                  /\ ~LayerDown
               THEN \E u \in HoldersAfter(c, "user") :
                      outbox'[n] = <<Frame("new_conversation_request", c, u, 0, <<>>, FALSE, "")>>
               ELSE outbox'[n] = <<>>]_vars

C27_Witness ==
  \E n, m \in NotificationSessions :
    /\ agent_sessions[n].pc = "open" /\ agent_sessions[m].pc = "open"
    /\ agent_sessions[n].user # agent_sessions[m].user
    /\ \E f \in Received(n) : f.type = "new_conversation_request" /\ f.conv \in DOMAIN conversations
    /\ outbox[m] = <<>>

(* C28: if the broadcast of the presence-offline event fails while a        *)
(* session is terminating, teardown still completes: the session is removed  *)
(* from its conversation group, and no later broadcast is written to it      *)
C28_TeardownSurvivesBroadcastFailure ==
  [][\A s \in Sessions :
       /\ (sessions[s].pc = "open" /\ LayerDown /\ Disconnect(s)) =>
            s \notin groups'[sessions[s].conversation_id]
       /\ sessions[s].pc \in {"idle", "dead"} => outbox'[s] = <<>>]_vars

\* Without a failure of the channel layer, disconnect leaves the group
TeardownCompletes ==
  [][\A s \in Sessions :
       (sessions[s].pc = "open" /\ ~LayerDown /\ Disconnect(s)) =>
         /\ s \notin groups'[sessions[s].conversation_id]
         /\ sessions'[s] = IdleSession]_vars

\* The 'typing' or 'read' frame f of session s takes effect in the step: the
\* store holds its update, and the sessions of the other users are told
TakesEffect(s, f) ==
  LET c == sessions[s].conversation_id
      u == sessions[s].user
  IN /\ IF f.type = "typing"
        THEN <<c, u>> \in DOMAIN typing' /\ typing'[<<c, u>>] = f.is_typing
        ELSE participants'[<<c, u>>].last_read_at = now
     /\ outbox'[s] = <<>>
     /\ \A t \in groups[c] \ {s} :
          (sessions[t].pc # "dead" /\ sessions[t].user # u) => GetsEventAbout(t, u)

\* The frame of session s is refused in the step: s is written one error
\* frame, and no other session is written anything
Refused(s) ==
  /\ Len(outbox'[s]) = 1 /\ outbox'[s][1].type = "error"
  /\ \A t \in Sessions \ {s} : outbox'[t] = <<>>

(* C29: every inbound event of an established session either takes effect   *)
(* (is persisted where applicable, and broadcast) or is answered to the      *)
(* sender with exactly one error event, never both and never neither; in     *)
(* particular a 'read' or 'typing' event whose store update fails is not     *)
(* broadcast as if it had succeeded while the sender gets no signal          *)
C29_EffectOrError ==
  [][\A s \in Sessions : \A f \in FramesOf({"typing", "read"}) :
       (sessions[s].pc = "open" /\ Receive(s, f)) => (TakesEffect(s, f) # Refused(s))]_vars

\* The same while the database answers
EffectWhileStoreAnswers ==
  [][\A s \in Sessions : \A f \in FramesOf({"typing", "read"}) :
       (sessions[s].pc = "open" /\ ~StoreDown /\ Receive(s, f)) =>
         TakesEffect(s, f) /\ ~Refused(s)]_vars

\* The step closes conversation c
Closes(c) == conversations[c].is_active /\ ~conversations'[c].is_active

(* C30: closing a conversation disconnects no session: every session that   *)
(* was in the conversation's group is still in it afterwards and still       *)
(* established, each of them, a session of the closing user included,        *)
(* receives exactly one conversation_closed event, no other session receives *)
(* one, and a session leaves a group only by its own disconnect              *)
C30_CloseKeepsSessions ==
  [][/\ \A c \in DOMAIN conversations :
          Closes(c) =>
            /\ groups' = groups /\ sessions' = sessions
            /\ \E u \in ActiveUsers(St, c) :
                 \A t \in Sessions :
                   outbox'[t] = IF t \in groups[c]
                                THEN <<Frame("conversation_closed", c, u, 0, <<>>, FALSE, "")>>
                                ELSE <<>>
     /\ \A s \in Sessions : \A c \in DOMAIN groups :
          (s \in groups[c] /\ s \notin groups'[c]) =>
            sessions[s].pc \in {"open", "saving"} /\ sessions'[s].pc = "idle"]_vars

C30_Witness ==
  \E s, t \in Sessions : \E f \in Received(s) :
    /\ s # t /\ Joined(s, f.conv) /\ Joined(t, f.conv)
    /\ f.type = "conversation_closed" /\ f.user_id = sessions[s].user
    /\ ~conversations[f.conv].is_active
    /\ f \in Received(t)

\* Thread k has returned from get_or_create_conversation for user u, having
\* found no conversation of u in its lookup
CreatedFor(k, u) ==
  /\ calls[k].pc = "done" /\ calls[k].op = "create" /\ calls[k].user = u
  /\ calls[k].err = "" /\ calls[k].created

(* C31: two concurrent get_or_create_conversation calls of one user who has *)
(* no conversation can both decide to create: when both lookups have run     *)
(* before either creation block, both calls return created = true and the    *)
(* user holds role 'user' in two distinct active conversations               *)
C31_BothCallsCreate ==
  [][\A k \in Callers : \A j \in Callers \ {k} :
       (/\ calls[k].pc = "creating" /\ calls[j].pc = "done"
        /\ calls[j].op = "create" /\ calls[j].created
        /\ calls[j].user = calls[k].user
        /\ calls[k].user \notin agent_users
        /\ CreateBlock(k))
       => /\ CreatedFor(k, calls[k].user)' /\ CreatedFor(j, calls[k].user)'
          /\ calls'[k].id # calls'[j].id
          /\ {calls'[k].id, calls'[j].id} \subseteq ExistingConversations(StNext, calls[k].user)]_vars

C31_Witness ==
  \E u \in Users :
    /\ CreatedFor("k1", u) /\ CreatedFor("k2", u)
    /\ calls["k1"].id # calls["k2"].id
    /\ Len(conversations) = 2
    /\ ExistingConversations(St, u) = {calls["k1"].id, calls["k2"].id}

(* C32: send_message and close_conversation each take effect as one atomic  *)
(* step: no message is inserted into a conversation whose active flag is    *)
(* already false, and no state shows an inactive conversation with an active *)
(* participant row                                                           *)
C32_SendAndCloseAtomic ==
  [][/\ \A k \in Callers : SendInsert(k) => conversations[calls[k].conv].is_active
     /\ \A c \in DOMAIN conversations' :
          ~conversations'[c].is_active => ActiveUsers(StNext, c) = {}]_vars

\* Both threads have returned from a send_message that was not refused
BothSent ==
  \A k \in Callers : calls[k].pc = "done" /\ calls[k].op = "send" /\ calls[k].err = ""

MemberThroughout(t, c) ==
  /\ Joined(t, c)
  /\ t \in groups'[c]
  /\ sessions'[t].pc \in {"open", "saving"}

\* The handler of session t withholds frame f because it is about t's own user
WithheldFrom(t, f) ==
  /\ f.type \in {"typing", "read", "presence"}
  /\ f.user_id = sessions[t].user

RolesKept(st1, st2) ==
  \A r \in Rows(st1) : r \in Rows(st2) /\ st2.participants[r].role = st1.participants[r].role

\* The rows of conversation c in st: the creator u with role 'user' and, if
\* an agent was assigned, one other user with role 'agent'
OneRowEach(st, c, u) ==
  /\ <<c, u>> \in Rows(st)
  /\ st.participants[<<c, u>>].role = "user"
  /\ \A r \in RowsOf(st.participants, c) : r[2] # u => st.participants[r].role = "agent"
  /\ Cardinality(RowsOf(st.participants, c)) <= 2

\* The agent row of conversation c, if any, belongs to the sender of the
\* system message that was stored with it
AgentRowIsAssigned(st, c) ==
  \A r \in RowsOf(st.participants, c) :
    st.participants[r].role = "agent" =>
      \E i \in MessagesOf(st.messages, c) :
        st.messages[i].message_type = "system" /\ st.messages[i].sender = r[2]

(* C35: there is at most one participant row per (conversation, user) and   *)
(* the role of a row never changes: in every reachable state each            *)
(* conversation holds its creator's row with role 'user' and at most one     *)
(* more row, of another user, with role 'agent', the agent assigned at       *)
(* creation; and every outcome of get_or_create_conversation, for any caller *)
(* and requested agent, keeps the stored rows and their roles and leaves a   *)
(* new conversation in that shape; an agent selected for their own request   *)
(* gets no second row and no changed role                                    *)
C35_OneRowFixedRole ==
  /\ \A c \in DOMAIN conversations :
       /\ \E u \in Users : OneRowEach(St, c, u)
       /\ AgentRowIsAssigned(St, c)
  /\ \A u \in Users : \A a \in AgentIds :
       \A r \in get_or_create_conversation(St, u, a) :
         /\ RolesKept(St, r.st)
         /\ r.created => OneRowEach(r.st, r.id, u) /\ AgentRowIsAssigned(r.st, r.id) /\ r.agent # u

C35_Witness ==
  \E a \in agent_users : \E c \in DOMAIN conversations :
    /\ OneRowEach(St, c, a)
    /\ \E b \in agent_users \ {a} : <<c, b>> \in Rows(St)
    /\ \E r \in get_or_create_conversation(St, a, a) : r.err = "IntegrityError"

(* C36: the creation inside get_or_create_conversation is all or nothing:    *)
(* an outcome that raises leaves the store as it was before the call (no     *)
(* conversation, participant or message of that call remains), an outcome    *)
(* that returns has stored the conversation with the caller's row            *)
C36_CreationAllOrNothing ==
  \A u \in Users : \A a \in AgentIds :
    \A r \in get_or_create_conversation(St, u, a) :
      IF r.err # ""
      THEN r.st = St /\ ~r.created
      ELSE r.created => /\ Len(r.st.conversations) = Len(conversations) + 1
                        /\ <<r.id, u>> \in Rows(r.st)

C36_Witness ==
  /\ Len(conversations) = 1
  /\ \E a \in agent_users :
       \E r \in get_or_create_conversation(St, a, a) : r.err = "IntegrityError" /\ r.st = St

\* User u has an established session joined to the group of conversation c
HasJoinedSession(c, u) == \E s \in Sessions : Joined(s, c) /\ sessions[s].user = u

(* C37: for every (conversation, user) the stored online flag is true        *)
(* whenever at least one established session of the user is joined to the    *)
(* conversation's group and false when none is, also when the user holds     *)
(* several sessions and one of them disconnects                              *)
C37_OnlineIffSomeSessionJoined ==
  \A r \in Rows(St) : participants[r].is_online <=> HasJoinedSession(r[1], r[2])

\* The 'message' frames in the output of session t
MessageFramesOf(ob, t) == {ob[t][i] : i \in {j \in DOMAIN ob[t] : ob[t][j].type = "message"}}

(* C38: every session joined to a conversation receives message events in  *)
(* the order in which the messages were persisted: a session that is written *)
(* one 'message' frame and then another is written them in non-decreasing    *)
(* order of created_at, also when two sessions send concurrently             *)
C38_LiveOrderIsHistoryOrder ==
  [][\A t \in Sessions :
       \A f \in MessageFramesOf(outbox, t) : \A g \in MessageFramesOf(outbox', t) :
         (f.conv = g.conv /\ sessions[t].pc # "idle" /\ sessions'[t].pc # "idle")
         => messages[f.id].created_at <= messages[g.id].created_at]_vars

\* What a client collects that pages backwards through the history view:
\* it asks for a page, and as long as the page is not empty, asks again with
\* the oldest message of the page as 'before'; fuel bounds the requests
RECURSIVE PagedBackwards(_, _, _, _, _, _)
PagedBackwards(st, u, c, size, before, fuel) ==
  IF fuel = 0
  THEN {<<>>}
  ELSE UNION {IF resp.status # 200 \/ resp.results = <<>>
              THEN {<<>>}
              ELSE {older \o resp.results :
                      older \in PagedBackwards(st, u, c, size, resp.results[1], fuel - 1)}
              : resp \in messages_view(st, u, c, size, before)}

\* Sequence h holds every message of conversation c exactly once
EachOnce(h, c) ==
  /\ {h[i] : i \in DOMAIN h} = MessagesOf(messages, c)
  /\ Len(h) = Cardinality(MessagesOf(messages, c))

\* No two messages of conversation c have the same creation time
DistinctTimes(c) ==
  \A i, j \in MessagesOf(messages, c) : i # j => messages[i].created_at # messages[j].created_at

(* C39: paging backwards through the history of a conversation, each time    *)
(* passing the oldest message of the previous page as 'before', returns      *)
(* every message of the conversation exactly once, also when several         *)
(* messages share the same creation time                                     *)
C39_PagingReturnsEachMessageOnce ==
  \A c \in DOMAIN conversations : \A u \in ActiveUsers(St, c) : \A size \in {1, 2} :
    \A h \in PagedBackwards(St, u, c, size, 0, Len(messages) + 1) : EachOnce(h, c)

\* The same for the conversations whose messages have distinct creation times
PagingCompleteWithoutTies ==
  \A c \in DOMAIN conversations : \A u \in ActiveUsers(St, c) : \A size \in {1, 2} :
    DistinctTimes(c) =>
      \A h \in PagedBackwards(St, u, c, size, 0, Len(messages) + 1) : EachOnce(h, c)

PagingCompleteWithoutTies_Witness ==
  /\ Cardinality(MessagesOf(messages, 1)) = 2
  /\ DistinctTimes(1)
  /\ "u1" \in ActiveUsers(St, 1)

\* Message id is in the page the history view gives participant u of c
Retrievable(st, u, c, id) ==
  \A resp \in messages_view(st, u, c, DefaultPageSize, 0) :
    resp.status = 200 /\ \E i \in DOMAIN resp.results : resp.results[i] = id

\* No session is written a 'message' frame in this step
NoMessageEvent == \A s \in Sessions : MessageFramesOf(outbox', s) = {}

\* The step stores a message that a user wrote
StoresUserMessage ==
  /\ Len(messages') = Len(messages) + 1 \/ Len(messages') = Len(messages) + 2
  /\ messages'[Len(messages')].message_type = "text"

(* C40: a message stored through the REST send view, or as the initial       *)
(* message of the create view, is stored by the same send_message operation  *)
(* as the streaming path uses (the sender must be an active participant, the *)
(* conversation's updated_at is set, the store becomes what save_message     *)
(* would make it) and is returned by the history view, but no session joined *)
(* to the conversation's group is written a 'message' frame for it; a        *)
(* 'message' frame is written only by the broadcast of handle_message        *)
C40_RestMessagesAreNotBroadcast ==
  [][/\ StoresUserMessage =>
          /\ \A u \in Users : \A c \in DOMAIN conversations :
               \A m \in {<<" ">>, <<" ", "y", " ">>} :
                 SendMessageView(u, c, m, "text") =>
                   /\ validate_participant_access(St, c, u)
                   /\ StNext = send_message(St, c, u, validate_content(m), "text").st
                   /\ StNext = save_message(St, c, u, validate_content(m)).st
                   /\ conversations'[c].updated_at = now
                   /\ Retrievable(StNext, u, c, Len(messages'))
                   /\ NoMessageEvent
          /\ \A u \in Users : \A a \in AgentIds :
               CreateView(u, a, <<" ", "y", " ">>) =>
                 /\ \E r \in get_or_create_conversation(St, u, a) :
                      /\ r.err = ""
                      /\ validate_participant_access(r.st, r.id, u)
                      /\ StNext = send_message(r.st, r.id, u, <<"y">>, "text").st
                      /\ StNext = save_message(r.st, r.id, u, <<"y">>).st
                      /\ conversations'[r.id].updated_at = now
                      /\ Retrievable(StNext, u, r.id, Len(messages'))
                 /\ NoMessageEvent
     /\ ~NoMessageEvent => \E s \in Sessions : Broadcast(s)]_vars

C40_Witness ==
  /\ \A s \in Sessions :
       Joined(s, 1) /\ sessions[s].pc = "open" /\ sessions[s].user = "u1" /\ outbox[s] = <<>>
  /\ \E i \in MessagesOf(messages, 1) :
       /\ messages[i].message_type = "text"
       /\ messages[i].sender = "a1"
       /\ Retrievable(St, "u1", 1, i)

====
